---- MODULE Spec2Model ----
(***************************************************************************)
(* TAU Commander record storage, trial controller and experiment model.    *)
(*                                                                         *)
(*   SpecDb   JsonDatabase (tau/core/database.py): the TinyDB-backed JSON  *)
(*            file, its write operations and its transactional scope.      *)
(*   SpecNum  Experiment.next_trial_number as a pure function of the       *)
(*            trial numbers in use.                                        *)
(*   Spec     TrialController.perform (taucmdr/model/trial.py) run by      *)
(*            concurrent processes on one project store, each call on the  *)
(*            store one step.                                              *)
(*   SpecRace the same processes with each call on the store split into    *)
(*            its read of the JSON file and its write of the JSON file.    *)
(*   SpecLock Spec together with Experiment.configure, the other holder of *)
(*            the project lock.                                            *)
(*   SpecFair SpecLock with the statements of perform's locked section     *)
(*            weakly fair.                                                 *)
(*   SpecExpr the operations of the ExperimentController                   *)
(*            (taucmdr/model/experiment.py) with two projects.             *)
(*   SpecSelect  Experiment.select run by concurrent processes.            *)
(*   SpecVerify  Experiment.verify at creation and Application.on_update   *)
(*            (tau/model/application.py).                                  *)
(*   SpecTopic   the 'rebuild_required' topic.                             *)
(*   SpecChange, SpecHooks  the on_update and on_create/on_delete hooks.   *)
(*   SpecKeys, SpecQuery  the key forms of the JsonDatabase reads.         *)
(*   SpecName, SpecTrials, SpecPick  name validation and Experiment.trials.*)
(*   SpecProject  ProjectController.get_project and get_selected.          *)
(*   SpecInitialize  the initialize command (cli/commands/initialize.py).  *)
(*   SpecRecent  Experiment.trials without numbers: the most recent trial. *)
(*   SpecParse   TrialController.parse_launcher_cmd.                       *)
(*   SpecCtrl    ExperimentController.create by controller objects that    *)
(*            keep the selected project.                                   *)
(***************************************************************************)
EXTENDS Integers, Sequences, FiniteSets, TLC

VARIABLES
    \* ---- JsonDatabase (SpecDb) ----
    file,               \* content of the JSON file: eid -> record (one table)
    db_copy,            \* JsonDatabase._db_copy: <<content>>, <<>> for None
    transaction_count,  \* JsonDatabase._transaction_count
    last_id,            \* highest eid the table has handed out
    readonly,           \* JsonFileStorage.readonly
    scopes,             \* the caller's open `with database:` blocks (number)
    entryFile,          \* <<content of the file when the outermost scope was entered>>
    lastOp,             \* the last call made on the database and what it did
    \* ---- next_trial_number (SpecNum) ----
    numbers,            \* trial['number'] of the experiment's trials, in storage order
    result,             \* <<value returned by next_trial_number>>, <<>> before the call
    \* ---- TrialController.perform (Spec) ----
    trials,             \* the project's trial table: eid -> record
    next_eid,           \* next record id the store hands out
    lockHolder,         \* process holding <project prefix>/.lock, NoProc if free
    pc,                 \* position of each process inside perform
    loc,                \* locals of each process's perform call
    \* ---- Experiment and Application models (SpecExpr, SpecVerify) ----
    experiments,        \* the experiment table of the project store: eid -> record
    selected_project,   \* eid of the selected project
    selected,           \* each project's `experiment` field: <<eid>>, <<>> if unset
    models,             \* the Target, Application and Measurement records
    trial_data,         \* experiment eid -> data_size of each of its trials
    dirs,               \* eids of the experiments whose prefix directory exists
    topics,             \* the payloads pushed to the 'rebuild_required' topic
    lastCall            \* the last controller call and what it returned or raised

dbVars    == <<file, db_copy, transaction_count, last_id, readonly, scopes, entryFile, lastOp>>
numVars   == <<numbers, result>>
trialVars == <<trials, next_eid, lockHolder, pc, loc>>
modelVars == <<experiments, selected_project, selected, models,
               trial_data, dirs, topics, lastCall>>
vars      == <<dbVars, numVars, trialVars, modelVars>>

None == "None"

(***************************************************************************)
(* Bounds of the model                                                     *)
(***************************************************************************)
MaxEid     == 2     \* records ever inserted into the JsonDatabase table
MaxDepth   == 2     \* nesting depth of transactional scopes
MaxNumber  == 3     \* trial numbers range over 0..MaxNumber in SpecNum
MaxTrials  == 2     \* trial records ever created by perform in Spec

Fields == {"f"}
Vals   == {0, 1}

\* A record's field mapping: a function from some of the fields to values.
Records == UNION {[D -> Vals] : D \in SUBSET Fields}
EmptyTable == [e \in {} |-> None]

(***************************************************************************)
(* JsonDatabase: keys and queries                                          *)
(***************************************************************************)
\* The forms of `keys`: an element identifier, a list of them, a field mapping.
KeyForms ==
    [kind : {"eid"}, eid : 1..MaxEid]
    \cup [kind : {"eids"}, eids : {S \in SUBSET (1..MaxEid) : Cardinality(S) = 2}]
    \cup [kind : {"dict"}, fields : Records \ {EmptyTable}, match_any : BOOLEAN]

\* _query: tinydb.where(key) == val for each item, joined by & or by |.
\* A record that lacks the key does not satisfy where(key) == val.
_queryAll(keys, rec) ==
    \A k \in DOMAIN keys : k \in DOMAIN rec /\ rec[k] = keys[k]
_queryAny(keys, rec) ==
    \E k \in DOMAIN keys : k \in DOMAIN rec /\ rec[k] = keys[k]
\* The mutant: the terms are joined by & whatever match_any says.
_query_AlwaysAnd(keys, match_any, rec) == _queryAll(keys, rec)

_query(keys, match_any, rec) ==
    IF match_any THEN _queryAny(keys, rec) ELSE _queryAll(keys, rec)

\* The eids a write with these keys goes through (update / unset / remove):
\* int(keys) -> [eid]; a list -> its eids; a dict -> the records matching the query.
Targets(table, keys) ==
    CASE keys.kind = "eid"  -> {keys.eid}
      [] keys.kind = "eids" -> keys.eids
      [] keys.kind = "dict" ->
            {e \in DOMAIN table : _query(keys.fields, keys.match_any, table[e])}

\* table.update / table.remove by eids raise KeyError on an eid the table lacks,
\* before anything is written.
KeyErrorOn(table, keys) == ~(Targets(table, keys) \subseteq DOMAIN table)

Merge(rec, fields) ==
    [k \in DOMAIN rec \cup DOMAIN fields |->
        IF k \in DOMAIN fields THEN fields[k] ELSE rec[k]]

Without(rec, field) == [k \in DOMAIN rec \ {field} |-> rec[k]]

TableInsert(table, eid, fields) ==
    [e \in DOMAIN table \cup {eid} |-> IF e = eid THEN fields ELSE table[e]]

TableUpdate(table, fields, keys) ==
    [e \in DOMAIN table |->
        IF e \in Targets(table, keys) THEN Merge(table[e], fields) ELSE table[e]]

TableUnset(table, field, keys) ==
    [e \in DOMAIN table |->
        IF e \in Targets(table, keys) THEN Without(table[e], field) ELSE table[e]]

\* tinydb.operations.delete(field) raises KeyError on a record without the field.
UnsetErrorOn(table, field, keys) ==
    \/ KeyErrorOn(table, keys)
    \/ \E e \in Targets(table, keys) \cap DOMAIN table : field \notin DOMAIN table[e]

TableRemove(table, keys) ==
    [e \in DOMAIN table \ Targets(table, keys) |-> table[e]]

(***************************************************************************)
(* JsonDatabase: the transactional scope                                   *)
(***************************************************************************)
\* The mutant: every entry, nested or not, takes the snapshot again.
EnterSnapshots_Always(count) == TRUE

\* __enter__: `if self._transaction_count == 0`
EnterSnapshots(count) == count = 0

\* The mutants: the copy is written back on a clean exit instead of on an error;
\* the copy is written back by the exit of any scope that sees an error.
ExitWrites_OnSuccess(ex_type, count) == ~ex_type /\ count = 0
ExitWrites_AnyDepth(ex_type, count) == ex_type

\* __exit__: `if ex_type and self._transaction_count == 0` (count already decremented)
ExitWrites(ex_type, count) == ex_type /\ count = 0

\* What a call did: `wrote` when it wrote the file, `raised` when it raised instead,
\* `changed` when the file's content after the call differs from the one before.
\* What is raised is the ConfigurationError of JsonFileStorage.write, or the
\* KeyError of the table where a call says so.
Op(name, ex, wrote, raised, changed) ==
    [op |-> name, ex |-> ex, wrote |-> wrote, raised |-> raised, changed |-> changed,
     err |-> IF raised THEN "ConfigurationError" ELSE None]

\* A call that left no trace: keys that are no int, list or dict fall through
\* every branch of update, unset and remove.
NoOp(name) == Op(name, FALSE, FALSE, FALSE, FALSE)

KeyError(name) == [Op(name, FALSE, FALSE, TRUE, FALSE) EXCEPT !.err = "KeyError"]

\* The mutant: the write goes to the file whether it is read-only or not.
StorageWrite_Anyway(content, name) ==
    /\ file' = content
    /\ lastOp' = Op(name, FALSE, TRUE, FALSE, content # file)

\* JsonFileStorage.write: raises ConfigurationError on a read-only file.
StorageWrite(content, name) ==
    IF readonly
    THEN /\ file' = file
         /\ lastOp' = Op(name, FALSE, FALSE, TRUE, FALSE)
    ELSE /\ file' = content
         /\ lastOp' = Op(name, FALSE, TRUE, FALSE, content # file)

Enter ==
    /\ scopes < MaxDepth
    /\ db_copy' = IF EnterSnapshots(transaction_count) THEN <<file>> ELSE db_copy
    /\ transaction_count' = transaction_count + 1
    /\ scopes' = scopes + 1
    /\ entryFile' = IF scopes = 0 THEN <<file>> ELSE entryFile
    /\ lastOp' = Op("enter", FALSE, FALSE, FALSE, FALSE)
    /\ UNCHANGED <<file, last_id, readonly>>
    /\ UNCHANGED <<numVars, trialVars, modelVars>>

Exit(ex_type) ==
    /\ scopes > 0
    /\ transaction_count' = transaction_count - 1
    /\ scopes' = scopes - 1
    /\ IF ExitWrites(ex_type, transaction_count')
       THEN IF readonly
            THEN /\ lastOp' = Op("exit", ex_type, FALSE, TRUE, FALSE)
                 /\ UNCHANGED <<file, db_copy>>
            ELSE /\ file' = db_copy[1]
                 /\ db_copy' = <<>>
                 /\ lastOp' = Op("exit", ex_type, TRUE, FALSE, db_copy[1] # file)
       ELSE /\ lastOp' = Op("exit", ex_type, FALSE, FALSE, FALSE)
            /\ UNCHANGED <<file, db_copy>>
    /\ UNCHANGED <<last_id, readonly, entryFile>>
    /\ UNCHANGED <<numVars, trialVars, modelVars>>

insert(fields) ==
    /\ last_id < MaxEid
    /\ StorageWrite(TableInsert(file, last_id + 1, fields), "insert")
    /\ last_id' = last_id + 1
    /\ UNCHANGED <<db_copy, transaction_count, readonly, scopes, entryFile>>
    /\ UNCHANGED <<numVars, trialVars, modelVars>>

update(fields, keys) ==
    /\ CASE keys.kind = "none" ->
                /\ lastOp' = NoOp("update")
                /\ file' = file
         [] KeyErrorOn(file, keys) ->
                /\ lastOp' = KeyError("update")
                /\ file' = file
         [] OTHER -> StorageWrite(TableUpdate(file, fields, keys), "update")
    /\ UNCHANGED <<db_copy, transaction_count, last_id, readonly, scopes, entryFile>>
    /\ UNCHANGED <<numVars, trialVars, modelVars>>

unset(field, keys) ==
    /\ CASE keys.kind = "none" ->
                /\ lastOp' = NoOp("unset")
                /\ file' = file
         [] UnsetErrorOn(file, field, keys) ->
                /\ lastOp' = KeyError("unset")
                /\ file' = file
         [] OTHER -> StorageWrite(TableUnset(file, field, keys), "unset")
    /\ UNCHANGED <<db_copy, transaction_count, last_id, readonly, scopes, entryFile>>
    /\ UNCHANGED <<numVars, trialVars, modelVars>>

remove(keys) ==
    /\ CASE keys.kind = "none" ->
                /\ lastOp' = NoOp("remove")
                /\ file' = file
         [] KeyErrorOn(file, keys) ->
                /\ lastOp' = KeyError("remove")
                /\ file' = file
         [] OTHER -> StorageWrite(TableRemove(file, keys), "remove")
    /\ UNCHANGED <<db_copy, transaction_count, last_id, readonly, scopes, entryFile>>
    /\ UNCHANGED <<numVars, trialVars, modelVars>>

purge ==
    /\ StorageWrite(EmptyTable, "purge")
    /\ UNCHANGED <<db_copy, transaction_count, last_id, readonly, scopes, entryFile>>
    /\ UNCHANGED <<numVars, trialVars, modelVars>>

NoProc == "NoProc"
Procs  == {"p1", "p2"}

\* Locals of one perform call, before any is assigned (record ids start at 1).
\* err names the statement that raised, None if none did.
NoCall == [number |-> 0, eid |-> 0, bluegene |-> FALSE, missing |-> FALSE,
           retval |-> 0, data_size |-> 0, err |-> None]

\* The project configurations of the store and the experiment names in use.
Projects  == {1, 2}
ExprNames == {"a", "b"}

\* Target, Application and Measurement records in which every pair is compatible
\* and every record is a member of every project.
CompatibleModels ==
    [target      |-> [projects |-> Projects],
     application |-> [mpi |-> FALSE, projects |-> Projects],
     measurement |-> [mpi |-> FALSE, projects |-> Projects]]

NoControllerCall == [op |-> "none"]

ModelIdle == /\ experiments = EmptyTable
             /\ selected_project = 1
             /\ selected = [q \in Projects |-> <<>>]
             /\ models = CompatibleModels
             /\ trial_data = EmptyTable
             /\ dirs = {}
             /\ topics = <<>>
             /\ lastCall = NoControllerCall
NumIdle   == /\ numbers = <<>>
             /\ result = <<>>
TrialIdle == /\ trials = EmptyTable
             /\ next_eid = 1
             /\ lockHolder = NoProc
             /\ pc = [p \in Procs |-> "idle"]
             /\ loc = [p \in Procs |-> NoCall]
DbIdle    == /\ file = EmptyTable
             /\ db_copy = <<>>
             /\ transaction_count = 0
             /\ last_id = 0
             /\ readonly = FALSE
             /\ scopes = 0
             /\ entryFile = <<>>
             /\ lastOp = Op("init", FALSE, FALSE, FALSE, FALSE)

InitDb ==
    /\ file = EmptyTable
    /\ db_copy = <<>>
    /\ transaction_count = 0
    /\ last_id = 0
    /\ readonly \in BOOLEAN
    /\ scopes = 0
    /\ entryFile = <<>>
    /\ lastOp = Op("init", FALSE, FALSE, FALSE, FALSE)
    /\ NumIdle
    /\ TrialIdle
    /\ ModelIdle

NextDb ==
    \/ Enter
    \/ \E ex_type \in BOOLEAN : Exit(ex_type)
    \/ \E fields \in Records : insert(fields)
    \/ \E fields \in Records \ {EmptyTable}, keys \in KeyForms : update(fields, keys)
    \/ \E field \in Fields, keys \in KeyForms : unset(field, keys)
    \/ \E keys \in KeyForms : remove(keys)
    \/ purge

SpecDb == InitDb /\ [][NextDb]_vars

(***************************************************************************)
(* Experiment.next_trial_number                                            *)
(***************************************************************************)
Range(s) == {s[i] : i \in 1..Len(s)}

RECURSIVE InsertSorted(_, _)
InsertSorted(x, s) ==
    IF s = <<>> THEN <<x>>
    ELSE IF x <= Head(s) THEN <<x>> \o s
    ELSE <<Head(s)>> \o InsertSorted(x, Tail(s))

RECURSIVE sorted(_)
sorted(s) == IF s = <<>> THEN <<>> ELSE InsertSorted(Head(s), sorted(Tail(s)))

\* The mutant: always extend the sequence, never fill a gap.
next_trial_number_NoGaps(nums) == Len(nums)

\* for i, j in enumerate(sorted(numbers)): if i != j: return i
\* return len(trials)
next_trial_number(nums) ==
    LET srt  == sorted(nums)
        diff == {i \in 0..(Len(srt) - 1) : i # srt[i + 1]}
    IN  IF diff # {}
        THEN CHOOSE i \in diff : \A k \in diff : i <= k
        ELSE Len(nums)

\* Lists of distinct trial numbers, in any storage order.
DistinctSeqs ==
    {s \in UNION {[1..n -> 0..MaxNumber] : n \in 0..(MaxNumber + 1)} :
        \A i, j \in 1..Len(s) : i # j => s[i] # s[j]}

InitNum ==
    /\ numbers \in DistinctSeqs
    /\ result = <<>>
    /\ DbIdle
    /\ TrialIdle
    /\ ModelIdle

CallNextTrialNumber ==
    /\ result = <<>>
    /\ result' = <<next_trial_number(numbers)>>
    /\ UNCHANGED numbers
    /\ UNCHANGED <<dbVars, trialVars, modelVars>>

\* The trial created with the number just returned joins the experiment's trials.
AddTrial ==
    /\ result # <<>>
    /\ result[1] <= MaxNumber
    /\ numbers' = Append(numbers, result[1])
    /\ result' = <<>>
    /\ UNCHANGED <<dbVars, trialVars, modelVars>>

NextNum == CallNextTrialNumber \/ AddTrial

SpecNum == InitNum /\ [][NextNum]_vars

(***************************************************************************)
(* Controller operations on the trial table: Controller.create, update and *)
(* delete pass the call to the storage operation of the same kind.  One    *)
(* call is one step on the shared store.                                   *)
(***************************************************************************)
EidKey(eid) == [kind |-> "eid", eid |-> eid]

\* Controller.create: the record is inserted under a fresh id.
ControllerCreate(table, eid, data) == TableInsert(table, eid, data)

\* Controller.update(data, eid): changes the fields of that record; with no such
\* record it raises KeyError and changes nothing.
ControllerUpdate(table, data, eid) ==
    IF KeyErrorOn(table, EidKey(eid)) THEN table
    ELSE TableUpdate(table, data, EidKey(eid))

\* Controller.delete(eid): on_delete, then the record is removed.
ControllerDelete(table, eid) ==
    IF KeyErrorOn(table, EidKey(eid)) THEN table
    ELSE TableRemove(table, EidKey(eid))

(***************************************************************************)
(* Trial.execute_command / Trial.queue_command                             *)
(***************************************************************************)
Outcome(err, missing, retval) == [err |-> err, missing |-> missing, retval |-> retval]

\* The mutant: the data the measurement expects is not looked for.
execute_command_NoCheck(launch_ok, retval, profiles, conflict, traces, expect_profile, expect_trace) ==
    LET missing == \/ expect_profile /\ ~profiles
                   \/ expect_trace /\ ~traces
    IN  IF ~launch_ok THEN Outcome("launch", FALSE, 0)
        ELSE Outcome(None, missing, retval)

\* execute_command.  launch_ok: create_subprocess did not raise OSError; retval: the
\* exit code; profiles / traces: files of that kind are in the trial prefix;
\* conflict: a profile.-1 file cannot be renamed; expect_profile / expect_trace:
\* measurement['profile'] != 'none', measurement['trace'] != 'none'.
execute_command(launch_ok, retval, profiles, conflict, traces, expect_profile, expect_trace) ==
    LET missing == \/ expect_profile /\ ~profiles
                   \/ expect_trace /\ ~traces
    IN  IF ~launch_ok THEN Outcome("launch", FALSE, 0)
        ELSE IF profiles /\ conflict THEN Outcome("rename", missing, retval)
        ELSE IF ~profiles /\ expect_profile THEN Outcome("noprofile", missing, retval)
        ELSE IF ~traces /\ expect_trace THEN Outcome("notrace", missing, retval)
        ELSE Outcome(None, missing, retval)

\* queue_command: only the launch can raise; the data is not looked at.
queue_command(launch_ok, retval, profiles, traces, expect_profile, expect_trace) ==
    LET missing == \/ expect_profile /\ ~profiles
                   \/ expect_trace /\ ~traces
    IN  IF ~launch_ok THEN Outcome("launch", FALSE, 0)
        ELSE Outcome(None, missing, retval)

\* Errors raised inside the try block that deletes the trial record.
ExecErrors == {"launch", "rename", "noprofile", "notrace"}

\* The mutant: every nonzero exit code raises, data or not.
DiedWithoutData_AnyNonzero(retval, data_size) == retval # 0

\* _perform_interactive: `if retval != 0: if data_size != 0: warning else: raise`
DiedWithoutData(retval, data_size) == retval # 0 /\ data_size = 0

(***************************************************************************)
(* The project's interprocess lock, <project prefix>/.lock                 *)
(***************************************************************************)
\* The mutant: a lock held through one handle is refused to every other handle,
\* those of the same process included.
CanAcquire_OtherHandleOnly(p) == lockHolder = NoProc

\* InterProcessLock.acquire: granted when no other process holds the file lock
\* (a process's second handle on the file is granted at once).
CanAcquire(p) == lockHolder \in {NoProc, p}

\* The mutant: the end of the with block leaves the lock held.
Released_Never(p) == lockHolder

\* InterProcessLock.release: a process's lock on the file ends when any of its
\* handles is unlocked and closed.
Released(p) == IF lockHolder = p THEN NoProc ELSE lockHolder

(***************************************************************************)
(* TrialController.perform, one step per statement on the shared store     *)
(***************************************************************************)
\* The mutant: the record is created as already executing.
CreatePhase_Executing == "executing"

\* data = {..., 'phase': 'initializing'}; the phases the except and else branches set
CreatePhase == "initializing"
ExceptPhase == "failed"
ElsePhase   == "completed"

\* populate('trials'): the numbers of the experiment's trials as a list.
RECURSIVE SeqOf(_)
SeqOf(S) == IF S = {} THEN <<>>
            ELSE LET e == CHOOSE x \in S : \A y \in S : x <= y
                 IN  <<trials[e].number>> \o SeqOf(S \ {e})

At(p, where) == pc[p] = where
Goto(p, where) == pc' = [pc EXCEPT ![p] = where]
Set(p, rec) == loc' = [loc EXCEPT ![p] = rec]

\* with fasteners.InterProcessLock(...):
Acquire(p) ==
    /\ At(p, "idle")
    /\ next_eid <= MaxTrials
    /\ CanAcquire(p)
    /\ lockHolder' = p
    /\ Goto(p, "locked")
    /\ UNCHANGED <<trials, next_eid, loc>>
    /\ UNCHANGED <<dbVars, numVars, modelVars>>

\* expr = proj.populate('experiment'); trial_number = expr.next_trial_number()
NextTrialNumber(p) ==
    /\ At(p, "locked")
    /\ Set(p, [loc[p] EXCEPT !.number = next_trial_number(SeqOf(DOMAIN trials))])
    /\ Goto(p, "numbered")
    /\ UNCHANGED <<trials, next_eid, lockHolder>>
    /\ UNCHANGED <<dbVars, numVars, modelVars>>

\* proj.populate('experiment') or expr.next_trial_number() raises inside the with block
NextTrialNumberRaises(p) ==
    /\ At(p, "locked")
    /\ Set(p, [loc[p] EXCEPT !.err = "number"])
    /\ Goto(p, "unlock")
    /\ UNCHANGED <<trials, next_eid, lockHolder>>
    /\ UNCHANGED <<dbVars, numVars, modelVars>>

\* trial = self.create(data) raises before anything is inserted
CreateRaises(p) ==
    /\ At(p, "numbered")
    /\ Set(p, [loc[p] EXCEPT !.err = "create"])
    /\ Goto(p, "unlock")
    /\ UNCHANGED <<trials, next_eid, lockHolder>>
    /\ UNCHANGED <<dbVars, numVars, modelVars>>

\* trial = self.create(data): the insert
Create(p) ==
    /\ At(p, "numbered")
    /\ next_eid <= MaxTrials
    /\ trials' = ControllerCreate(trials, next_eid,
                                  [number |-> loc[p].number, phase |-> CreatePhase])
    /\ next_eid' = next_eid + 1
    /\ Set(p, [loc[p] EXCEPT !.eid = next_eid])
    /\ Goto(p, "on_create")
    /\ UNCHANGED lockHolder
    /\ UNCHANGED <<dbVars, numVars, modelVars>>

\* trial = self.create(data): Trial.on_create.  self.prefix takes and releases the
\* project lock (Experiment.prefix); mkdirp may fail, and create then deletes the
\* record it inserted and raises.
OnCreate(p, ok) ==
    /\ At(p, "on_create")
    /\ CanAcquire(p)
    /\ lockHolder' = Released(p)
    /\ IF ok
       THEN /\ UNCHANGED <<trials, loc>>
            /\ Goto(p, "unlock")
       ELSE /\ trials' = ControllerDelete(trials, loc[p].eid)
            /\ Set(p, [loc[p] EXCEPT !.err = "on_create"])
            /\ Goto(p, "unlock")
    /\ UNCHANGED next_eid
    /\ UNCHANGED <<dbVars, numVars, modelVars>>

\* the end of the with block
Release(p) ==
    /\ At(p, "unlock")
    /\ lockHolder' = Released(p)
    /\ Goto(p, IF loc[p].err = None THEN "created" ELSE "raised")
    /\ UNCHANGED <<trials, next_eid, loc>>
    /\ UNCHANGED <<dbVars, numVars, modelVars>>

\* env[...] = trial.prefix; expr.populate('measurement'); b64encode;
\* expr.populate('target').architecture().is_bluegene(): outside the try block.
Prepare(p, ok, bluegene) ==
    /\ At(p, "created")
    /\ CanAcquire(p)
    /\ IF ok
       THEN /\ Set(p, [loc[p] EXCEPT !.bluegene = bluegene])
            /\ Goto(p, "try")
       ELSE /\ Set(p, [loc[p] EXCEPT !.err = "prepare"])
            /\ Goto(p, "raised")
    /\ UNCHANGED <<trials, next_eid, lockHolder>>
    /\ UNCHANGED <<dbVars, numVars, modelVars>>

\* _perform_bluegene: `if os.path.basename(cmd[0]) != 'qsub': raise TrialError`
NotQsub(p) ==
    /\ At(p, "try")
    /\ loc[p].bluegene
    /\ Set(p, [loc[p] EXCEPT !.err = "notqsub"])
    /\ Goto(p, "except")
    /\ UNCHANGED <<trials, next_eid, lockHolder>>
    /\ UNCHANGED <<dbVars, numVars, modelVars>>

\* self.update({'phase': 'executing', 'begin_time': begin_time}, trial.eid)
\* (_perform_bluegene: self.update({'phase': 'executing'}, trial.eid))
UpdateExecuting(p) ==
    /\ At(p, "try")
    /\ trials' = ControllerUpdate(trials,
                    IF loc[p].bluegene
                    THEN [phase |-> "executing"]
                    ELSE [phase |-> "executing", begin_time |-> "t"],
                    loc[p].eid)
    /\ Goto(p, "execute")
    /\ UNCHANGED <<next_eid, lockHolder, loc>>
    /\ UNCHANGED <<dbVars, numVars, modelVars>>

\* retval, elapsed = trial.execute_command(expr, cmd, cwd, env)
ExecuteCommand(p, out) ==
    /\ At(p, "execute")
    /\ ~loc[p].bluegene
    /\ CanAcquire(p)
    /\ Set(p, [loc[p] EXCEPT !.err = out.err, !.missing = out.missing,
                             !.retval = out.retval])
    /\ Goto(p, IF out.err = None THEN "ran" ELSE "except_delete")
    /\ UNCHANGED <<trials, next_eid, lockHolder>>
    /\ UNCHANGED <<dbVars, numVars, modelVars>>

\* retval = trial.queue_command(expr, cmd, cwd, env); `if retval != 0: raise TrialError`
QueueCommand(p, out) ==
    /\ At(p, "execute")
    /\ loc[p].bluegene
    /\ Set(p, [loc[p] EXCEPT !.missing = out.missing, !.retval = out.retval,
                             !.err = IF out.err # None THEN out.err
                                     ELSE IF out.retval # 0 THEN "queue" ELSE None])
    /\ Goto(p, IF out.err # None THEN "except_delete"
               ELSE IF out.retval # 0 THEN "except" ELSE "else")
    /\ UNCHANGED <<trials, next_eid, lockHolder>>
    /\ UNCHANGED <<dbVars, numVars, modelVars>>

\* The mutants: the handler deletes nothing; it deletes every executing trial.
DeletedOnError_None(p) == {}
DeletedOnError_Executing(p) == {e \in DOMAIN trials : trials[e].phase = "executing"}

\* The records `except: self.delete(trial.eid); raise` deletes.
DeletedOnError(p) == {loc[p].eid}

DeleteOnError(p) ==
    /\ At(p, "except_delete")
    /\ trials' = [e \in DOMAIN trials \ DeletedOnError(p) |-> trials[e]]
    /\ Goto(p, "except")
    /\ UNCHANGED <<next_eid, lockHolder, loc>>
    /\ UNCHANGED <<dbVars, numVars, modelVars>>

\* fields = {end_time, return_code, elapsed, data_size}; self.update(fields, trial.eid);
\* then `if retval != 0` and no data: raise TrialError
RecordData(p, data_size) ==
    /\ At(p, "ran")
    /\ CanAcquire(p)
    /\ trials' = ControllerUpdate(trials,
                    [end_time |-> "t", return_code |-> loc[p].retval,
                     elapsed |-> "t", data_size |-> data_size],
                    loc[p].eid)
    /\ IF DiedWithoutData(loc[p].retval, data_size)
       THEN /\ Set(p, [loc[p] EXCEPT !.data_size = data_size, !.err = "died"])
            /\ Goto(p, "except")
       ELSE /\ Set(p, [loc[p] EXCEPT !.data_size = data_size])
            /\ Goto(p, "else")
    /\ UNCHANGED <<next_eid, lockHolder>>
    /\ UNCHANGED <<dbVars, numVars, modelVars>>

\* except Exception: self.update({'phase': 'failed', 'environment': b64env}, trial.eid)
\* (KeyError when the record was deleted: pass); raise err
MarkFailed(p) ==
    /\ At(p, "except")
    /\ trials' = ControllerUpdate(trials,
                    [phase |-> ExceptPhase, environment |-> "env"], loc[p].eid)
    /\ Goto(p, "raised")
    /\ UNCHANGED <<next_eid, lockHolder, loc>>
    /\ UNCHANGED <<dbVars, numVars, modelVars>>

\* else: self.update({'phase': 'completed', 'environment': b64env}, trial.eid); return retval
MarkCompleted(p) ==
    /\ At(p, "else")
    /\ trials' = ControllerUpdate(trials,
                    [phase |-> ElsePhase, environment |-> "env"], loc[p].eid)
    /\ Goto(p, "done")
    /\ UNCHANGED <<next_eid, lockHolder, loc>>
    /\ UNCHANGED <<dbVars, numVars, modelVars>>

\* perform has returned or raised; the process is free for another call.
Return(p) ==
    /\ pc[p] \in {"done", "raised"}
    /\ Set(p, NoCall)
    /\ Goto(p, "idle")
    /\ UNCHANGED <<trials, next_eid, lockHolder>>
    /\ UNCHANGED <<dbVars, numVars, modelVars>>

\* @fasteners.interprocess_locked(<highest writable storage prefix>/.lock): configure
\* is entered with the lock of the project storage held.
Configure(p) ==
    /\ At(p, "idle")
    /\ CanAcquire(p)
    /\ lockHolder' = p
    /\ Goto(p, "configure")
    /\ UNCHANGED <<trials, next_eid, loc>>
    /\ UNCHANGED <<dbVars, numVars, modelVars>>

\* with fasteners.InterProcessLock(<project prefix>/.lock): populated = self.populate(...)
\* The same file is locked again through a second handle, and unlocked.
ConfigurePopulate(p) ==
    /\ At(p, "configure")
    /\ CanAcquire(p)
    /\ lockHolder' = Released(p)
    /\ Goto(p, "install")
    /\ UNCHANGED <<trials, next_eid, loc>>
    /\ UNCHANGED <<dbVars, numVars, modelVars>>

\* tau.install(); the update of tau_makefile; configure returns or raises and the
\* decorator releases its lock.
ConfigureReturn(p) ==
    /\ At(p, "install")
    /\ lockHolder' = Released(p)
    /\ Goto(p, "idle")
    /\ UNCHANGED <<trials, next_eid, loc>>
    /\ UNCHANGED <<dbVars, numVars, modelVars>>

\* A trial no running perform call owns is deleted (`trial delete`).
Owned(e) == \E p \in Procs : pc[p] # "idle" /\ loc[p].eid = e

DeleteTrial(e) ==
    /\ e \in DOMAIN trials
    /\ ~Owned(e)
    /\ trials' = ControllerDelete(trials, e)
    /\ UNCHANGED <<next_eid, lockHolder, pc, loc>>
    /\ UNCHANGED <<dbVars, numVars, modelVars>>

ExecOutcomes ==
    {execute_command(l, r, pr, c, tr, ep, et) :
        l \in BOOLEAN, r \in 0..1, pr \in BOOLEAN, c \in BOOLEAN,
        tr \in BOOLEAN, ep \in BOOLEAN, et \in BOOLEAN}

QueueOutcomes ==
    {queue_command(l, r, pr, tr, ep, et) :
        l \in BOOLEAN, r \in 0..1, pr \in BOOLEAN,
        tr \in BOOLEAN, ep \in BOOLEAN, et \in BOOLEAN}

Init ==
    /\ trials = EmptyTable
    /\ next_eid = 1
    /\ lockHolder = NoProc
    /\ pc = [p \in Procs |-> "idle"]
    /\ loc = [p \in Procs |-> NoCall]
    /\ DbIdle
    /\ NumIdle
    /\ ModelIdle

Next ==
    \/ \E p \in Procs : Acquire(p)
    \/ \E p \in Procs : NextTrialNumber(p)
    \/ \E p \in Procs : NextTrialNumberRaises(p)
    \/ \E p \in Procs : CreateRaises(p)
    \/ \E p \in Procs : Create(p)
    \/ \E p \in Procs, ok \in BOOLEAN : OnCreate(p, ok)
    \/ \E p \in Procs : Release(p)
    \/ \E p \in Procs, ok \in BOOLEAN, bluegene \in BOOLEAN : Prepare(p, ok, bluegene)
    \/ \E p \in Procs : NotQsub(p)
    \/ \E p \in Procs : UpdateExecuting(p)
    \/ \E p \in Procs, out \in ExecOutcomes : ExecuteCommand(p, out)
    \/ \E p \in Procs, out \in QueueOutcomes : QueueCommand(p, out)
    \/ \E p \in Procs : DeleteOnError(p)
    \/ \E p \in Procs, data_size \in 0..1 : RecordData(p, data_size)
    \/ \E p \in Procs : MarkFailed(p)
    \/ \E p \in Procs : MarkCompleted(p)
    \/ \E p \in Procs : Return(p)
    \/ \E e \in 1..MaxTrials : DeleteTrial(e)

Spec == Init /\ [][Next]_vars

\* perform together with Experiment.configure, the other holder of the lock.
NextLock ==
    \/ Next
    \/ \E p \in Procs : Configure(p)
    \/ \E p \in Procs : ConfigurePopulate(p)
    \/ \E p \in Procs : ConfigureReturn(p)

SpecLock == Init /\ [][NextLock]_vars

\* Statements inside the with block run to the end of the block: nothing in it
\* waits for another process.
InLockedSection(p) ==
    \/ NextTrialNumber(p)
    \/ NextTrialNumberRaises(p)
    \/ CreateRaises(p)
    \/ Create(p)
    \/ \E ok \in BOOLEAN : OnCreate(p, ok)
    \/ Release(p)

SpecFair == SpecLock /\ \A p \in Procs : WF_vars(InLockedSection(p))

(***************************************************************************)
(* perform at the granularity of the JSON file.  The store keeps no cache: *)
(* a table operation reads the whole file, changes the content in memory   *)
(* and writes the whole file back (JsonFileStorage.write, and _read/_write *)
(* in __enter__/__exit__).  Only the statements inside perform's with      *)
(* block run under the project lock; the later updates and the delete on   *)
(* error do not, so another process may write between the two halves.      *)
(***************************************************************************)
MaxRaceTrials == 3

\* Locals of one perform call in this specification; pending is the content the
\* store call in progress will write, failed whether the call is raising.
RaceCall == [number |-> 0, eid |-> 0, pending |-> <<>>, failed |-> FALSE]

\* Where each store call continues once its content is written.
AfterWrite(p, where) ==
    CASE where = "create_w"    -> "unlock"
      [] where = "executing_w" -> "execute"
      [] where = "delete_w"    -> "except"
      [] where = "record_w"    -> IF loc[p].failed THEN "except" ELSE "else"
      [] where = "failed_w"    -> "raised"
      [] where = "completed_w" -> "done"

WritePoints == {"create_w", "executing_w", "delete_w", "record_w", "failed_w", "completed_w"}

\* First half of a store call: the file is read and the new content computed.
ReadFile(p, content, where) ==
    /\ Set(p, [loc[p] EXCEPT !.pending = <<content>>])
    /\ Goto(p, where)
    /\ UNCHANGED <<trials, next_eid, lockHolder>>

\* The call raises KeyError: the record is not in the file that was read.
RaiseKeyError(p, where) ==
    /\ Set(p, [loc[p] EXCEPT !.failed = TRUE])
    /\ Goto(p, where)
    /\ UNCHANGED <<trials, next_eid, lockHolder>>

\* Second half of a store call: the content is written over the file.
WriteFile(p) ==
    /\ pc[p] \in WritePoints
    /\ trials' = loc[p].pending[1]
    /\ Set(p, [loc[p] EXCEPT !.pending = <<>>])
    /\ Goto(p, AfterWrite(p, pc[p]))
    /\ UNCHANGED <<next_eid, lockHolder>>
    /\ UNCHANGED <<dbVars, numVars, modelVars>>

\* with fasteners.InterProcessLock(...):
RaceAcquire(p) ==
    /\ At(p, "idle")
    /\ next_eid <= MaxRaceTrials
    /\ CanAcquire(p)
    /\ lockHolder' = p
    /\ Goto(p, "locked")
    /\ UNCHANGED <<trials, next_eid, loc>>
    /\ UNCHANGED <<dbVars, numVars, modelVars>>

\* expr = proj.populate('experiment'); trial_number = expr.next_trial_number()
RaceNextTrialNumber(p) ==
    /\ At(p, "locked")
    /\ Set(p, [loc[p] EXCEPT !.number = next_trial_number(SeqOf(DOMAIN trials))])
    /\ Goto(p, "numbered")
    /\ UNCHANGED <<trials, next_eid, lockHolder>>
    /\ UNCHANGED <<dbVars, numVars, modelVars>>

\* trial = self.create(data): the insert reads the file
RaceCreate(p) ==
    /\ At(p, "numbered")
    /\ loc' = [loc EXCEPT ![p].eid = next_eid,
                          ![p].pending = <<ControllerCreate(trials, next_eid,
                                [number |-> loc[p].number, phase |-> CreatePhase])>>]
    /\ next_eid' = next_eid + 1
    /\ Goto(p, "create_w")
    /\ UNCHANGED <<trials, lockHolder>>
    /\ UNCHANGED <<dbVars, numVars, modelVars>>

\* Trial.on_create evaluates self.prefix, which releases the lock; the with block ends
RaceRelease(p) ==
    /\ At(p, "unlock")
    /\ lockHolder' = Released(p)
    /\ Goto(p, "try")
    /\ UNCHANGED <<trials, next_eid, loc>>
    /\ UNCHANGED <<dbVars, numVars, modelVars>>

\* self.update({'phase': 'executing', 'begin_time': begin_time}, trial.eid)
RaceUpdateExecuting(p) ==
    /\ At(p, "try")
    /\ IF loc[p].eid \in DOMAIN trials
       THEN ReadFile(p, ControllerUpdate(trials, [phase |-> "executing", begin_time |-> "t"],
                                     loc[p].eid),
                     "executing_w")
       ELSE RaiseKeyError(p, "except_delete")
    /\ UNCHANGED <<dbVars, numVars, modelVars>>

\* retval, elapsed = trial.execute_command(expr, cmd, cwd, env): raises or returns
RaceExecuteCommand(p, raises) ==
    /\ At(p, "execute")
    /\ Set(p, [loc[p] EXCEPT !.failed = raises])
    /\ Goto(p, IF raises THEN "except_delete" ELSE "ran")
    /\ UNCHANGED <<trials, next_eid, lockHolder>>
    /\ UNCHANGED <<dbVars, numVars, modelVars>>

\* except: self.delete(trial.eid); raise
RaceDeleteOnError(p) ==
    /\ At(p, "except_delete")
    /\ IF loc[p].eid \in DOMAIN trials
       THEN ReadFile(p, ControllerDelete(trials, loc[p].eid), "delete_w")
       ELSE RaiseKeyError(p, "except")
    /\ UNCHANGED <<dbVars, numVars, modelVars>>

\* self.update(fields, trial.eid); `if retval != 0` and no data: raise TrialError
RaceRecordData(p, died) ==
    /\ At(p, "ran")
    /\ IF loc[p].eid \in DOMAIN trials
       THEN /\ loc' = [loc EXCEPT ![p].failed = died,
                                  ![p].pending = <<ControllerUpdate(trials,
                                        [end_time |-> "t", return_code |-> IF died THEN 1 ELSE 0,
                                         elapsed |-> "t", data_size |-> IF died THEN 0 ELSE 1],
                                        loc[p].eid)>>]
            /\ Goto(p, "record_w")
            /\ UNCHANGED <<trials, next_eid, lockHolder>>
       ELSE RaiseKeyError(p, "except")
    /\ UNCHANGED <<dbVars, numVars, modelVars>>

\* except Exception: self.update({'phase': 'failed', 'environment': b64env}, trial.eid);
\* except KeyError: pass; raise err
RaceMarkFailed(p) ==
    /\ At(p, "except")
    /\ IF loc[p].eid \in DOMAIN trials
       THEN ReadFile(p, ControllerUpdate(trials, [phase |-> ExceptPhase, environment |-> "env"],
                                     loc[p].eid),
                     "failed_w")
       ELSE RaiseKeyError(p, "raised")
    /\ UNCHANGED <<dbVars, numVars, modelVars>>

\* else: self.update({'phase': 'completed', 'environment': b64env}, trial.eid); return retval
RaceMarkCompleted(p) ==
    /\ At(p, "else")
    /\ IF loc[p].eid \in DOMAIN trials
       THEN ReadFile(p, ControllerUpdate(trials, [phase |-> ElsePhase, environment |-> "env"],
                                     loc[p].eid),
                     "completed_w")
       ELSE RaiseKeyError(p, "raised")
    /\ UNCHANGED <<dbVars, numVars, modelVars>>

\* perform has returned or raised; the process is free for another call.
RaceReturn(p) ==
    /\ pc[p] \in {"done", "raised"}
    /\ Set(p, RaceCall)
    /\ Goto(p, "idle")
    /\ UNCHANGED <<trials, next_eid, lockHolder>>
    /\ UNCHANGED <<dbVars, numVars, modelVars>>

InitRace ==
    /\ trials = EmptyTable
    /\ next_eid = 1
    /\ lockHolder = NoProc
    /\ pc = [p \in Procs |-> "idle"]
    /\ loc = [p \in Procs |-> RaceCall]
    /\ DbIdle
    /\ NumIdle
    /\ ModelIdle

NextRace ==
    \/ \E p \in Procs : RaceAcquire(p)
    \/ \E p \in Procs : RaceNextTrialNumber(p)
    \/ \E p \in Procs : RaceCreate(p)
    \/ \E p \in Procs : RaceRelease(p)
    \/ \E p \in Procs : RaceUpdateExecuting(p)
    \/ \E p \in Procs, raises \in BOOLEAN : RaceExecuteCommand(p, raises)
    \/ \E p \in Procs : RaceDeleteOnError(p)
    \/ \E p \in Procs, died \in BOOLEAN : RaceRecordData(p, died)
    \/ \E p \in Procs : RaceMarkFailed(p)
    \/ \E p \in Procs : RaceMarkCompleted(p)
    \/ \E p \in Procs : WriteFile(p)
    \/ \E p \in Procs : RaceReturn(p)

SpecRace == InitRace /\ [][NextRace]_vars

(***************************************************************************)
(* Experiment, ExperimentController and Application                        *)
(* (taucmdr/model/experiment.py, tau/model/application.py).  One call of   *)
(* the controller is one step on the project store; Experiment.select is   *)
(* its search followed by the write of the project's `experiment` field.   *)
(***************************************************************************)
MaxExprs == 2     \* highest record id of the experiment table

\* The forms of `keys` handed to the ExperimentController: absent, an element
\* identifier, a list of them, a field mapping, a list of field mappings (the
\* mappings inside a list carry one field).
ExprKeys ==
    {[kind |-> "none"]}
    \cup [kind : {"eid"}, eid : 1..MaxExprs]
    \cup [kind : {"eids"}, eids : {S \in SUBSET (1..MaxExprs) : Cardinality(S) = 2}]
    \cup [kind : {"dict"}, match_any : {FALSE},
          fields : [name : ExprNames] \cup [name : ExprNames, project : Projects]]
    \cup [kind : {"dicts"}, list : SUBSET [name : ExprNames] \ {{}}]

\* dict(keys, project=...) works on a mapping; [dict(key, project=...) for key
\* in keys] works on a list of mappings; both raise TypeError on None, on an
\* int and on a list of ints, and keys is then returned as it came.
_restrict_project(keys, project_eid) ==
    CASE keys.kind = "dict"  ->
            [keys EXCEPT !.fields = Merge(@, [project |-> project_eid])]
      [] keys.kind = "dicts" ->
            [keys EXCEPT !.list = {Merge(key, [project |-> project_eid]) : key \in @}]
      [] OTHER -> keys

\* The records the keys stand for: all of them when keys is absent, else as
\* get / search / contains resolve an eid, a list of eids and a query.
Matching(table, keys) ==
    CASE keys.kind = "none"  -> DOMAIN table
      [] keys.kind = "dicts" ->
            {e \in DOMAIN table : \E key \in keys.list : _queryAll(key, table[e])}
      [] OTHER -> Targets(table, keys) \cap DOMAIN table

MaxOf(S) == CHOOSE m \in S : \A n \in S : n <= m
MinOf(S) == CHOOSE m \in S : \A n \in S : m <= n

\* Experiment.prefix: <project prefix>/<name>, here the pair that names it.
prefix(rec) == <<rec.project, rec.name>>

\* one, search, exists, update, unset, delete: the keys go through
\* _restrict_project and the call goes on to the Controller.  update and unset
\* write and clear tau_makefile; delete runs on_delete (rmtree of the prefix).
ControllerCall(op, keys) ==
    LET found  == Matching(experiments, _restrict_project(keys, selected_project))
        raised == op = "unset" /\ \E e \in found : "tau_makefile" \notin DOMAIN experiments[e]
        hit    == CASE raised -> {}
                    [] op = "one" /\ found # {} -> {MinOf(found)}
                    [] OTHER -> found
    IN  /\ experiments' =
              CASE op = "update" ->
                      [e \in DOMAIN experiments |->
                          IF e \in hit THEN Merge(experiments[e], [tau_makefile |-> 1])
                                       ELSE experiments[e]]
                [] op = "unset"  ->
                      [e \in DOMAIN experiments |->
                          IF e \in hit THEN Without(experiments[e], "tau_makefile")
                                       ELSE experiments[e]]
                [] op = "delete" -> [e \in DOMAIN experiments \ hit |-> experiments[e]]
                [] OTHER -> experiments
        /\ dirs' = IF op = "delete" THEN dirs \ {prefix(experiments[e]) : e \in hit} ELSE dirs
        /\ trial_data' = IF op = "delete"
                         THEN [e \in DOMAIN trial_data \ hit |-> trial_data[e]]
                         ELSE trial_data
        /\ lastCall' = [op |-> op, kind |-> keys.kind,
                        projects |-> {experiments[e].project : e \in hit}]
        /\ UNCHANGED <<selected_project, selected, models, topics>>
        /\ UNCHANGED <<dbVars, numVars, trialVars>>

\* The mutant: the unique attributes are joined by `or`, the Controller's default.
_check_unique_MatchAny(table, fields) ==
    \E e \in DOMAIN table : _query(fields, TRUE, table[e])

\* _check_unique(data, match_any=False): TRUE when a record with the same unique
\* attributes (name and project) is there already, and create then raises.
_check_unique(table, fields) ==
    \E e \in DOMAIN table : _query(fields, FALSE, table[e])

\* The mutant: the mpi attribute of the Application carries no compat rule.
Application_compat_None(ms) == TRUE

\* Application 'mpi': 'compat': {True: Measurement.require('mpi', True)}
Application_compat(ms) == ms.application.mpi => ms.measurement.mpi

\* Measurement 'mpi': 'compat': {'Application': {'mpi': requisite.Required}}
Measurement_compat(ms) == ms.measurement.mpi => ms.application.mpi

\* lhs.check_compatibility(rhs): the compat rules of lhs that speak of rhs.
check_compatibility(ms, lhs, rhs) ==
    /\ (lhs = "application" /\ rhs = "measurement") => Application_compat(ms)
    /\ (lhs = "measurement" /\ rhs = "application") => Measurement_compat(ms)

ModelKinds == {"target", "application", "measurement"}

\* Experiment.verify: TRUE when nothing is raised.
verify(ms, proj) ==
    /\ \A model \in ModelKinds : proj \in ms[model].projects
    /\ \A lhs \in ModelKinds, rhs \in ModelKinds : check_compatibility(ms, lhs, rhs)

\* The mutant: the directory is made before the experiment is verified.
on_create_MkdirFirst(ms, proj, mkdirp_ok) ==
    [err |-> CASE ~mkdirp_ok -> "ConfigurationError"
               [] ~verify(ms, proj) -> "IncompatibleRecordError"
               [] OTHER -> None,
     dir |-> mkdirp_ok]

\* Experiment.on_create: what it raises, and whether the directory was made.
on_create(ms, proj, mkdirp_ok) ==
    [err |-> CASE ~verify(ms, proj) -> "IncompatibleRecordError"
               [] ~mkdirp_ok -> "ConfigurationError"
               [] OTHER -> None,
     dir |-> verify(ms, proj) /\ mkdirp_ok]

\* Controller.create: the record is inserted, and is taken out again when the
\* check of the unique attributes or on_create raised.
Controller_create(table, eid, fields, err) ==
    IF err = None THEN TableInsert(table, eid, fields) ELSE table

\* ExperimentController.create: the project is the selected one whatever the
\* caller passed.  Every experiment uses the one Target, the one Application
\* and the one Measurement of the model.
ExprCreate(name, mkdirp_ok) ==
    LET fields  == [name |-> name, project |-> selected_project, application |-> 1]
        eid     == MaxOf(DOMAIN experiments \cup {0}) + 1
        hook    == on_create(models, selected_project, mkdirp_ok)
        err     == IF _check_unique(experiments, fields)
                   THEN "UniqueAttributeError" ELSE hook.err
        made    == ~_check_unique(experiments, fields) /\ hook.dir
    IN  /\ _check_unique(experiments, fields) \/ eid <= MaxExprs
        /\ experiments' = Controller_create(experiments, eid, fields, err)
        /\ trial_data' = Controller_create(trial_data, eid, <<>>, err)
        /\ dirs' = IF made THEN dirs \cup {prefix(fields)} ELSE dirs
        /\ lastCall' = [op |-> "create", name |-> name, err |-> err]
        /\ UNCHANGED <<selected_project, selected, models, topics>>
        /\ UNCHANGED <<dbVars, numVars, trialVars>>

\* Project.controller().select(project): another project becomes the selected one.
SelectProject(proj) ==
    /\ proj # selected_project
    /\ \A p \in Procs : At(p, "idle")
    /\ selected_project' = proj
    /\ lastCall' = [op |-> "select_project"]
    /\ UNCHANGED <<experiments, selected, models, trial_data, dirs, topics>>
    /\ UNCHANGED <<dbVars, numVars, trialVars>>

\* Experiment.select up to `expr = matching[0]`: no lock is taken.
SelectSearch(p, name) ==
    LET matching == Matching(experiments,
                        [kind |-> "dict", match_any |-> FALSE,
                         fields |-> [name |-> name, project |-> selected_project]])
    IN  /\ At(p, "idle")
        /\ IF Cardinality(matching) = 1
           THEN /\ Set(p, [NoCall EXCEPT !.eid = MinOf(matching)])
                /\ Goto(p, "select")
                /\ UNCHANGED lastCall
           ELSE /\ lastCall' = [op |-> "select", name |-> name,
                                err |-> IF matching = {} THEN "ExperimentSelectionError"
                                                         ELSE "InternalError"]
                /\ UNCHANGED <<pc, loc>>
        /\ UNCHANGED <<experiments, selected_project, selected, models, trial_data, dirs, topics>>
        /\ UNCHANGED <<trials, next_eid, lockHolder>>
        /\ UNCHANGED <<dbVars, numVars>>

\* proj_ctrl.select(proj, expr): the project's `experiment` field is written.
SelectWrite(p) ==
    /\ At(p, "select")
    /\ selected' = [selected EXCEPT ![selected_project] = <<loc[p].eid>>]
    /\ Set(p, NoCall)
    /\ Goto(p, "idle")
    /\ UNCHANGED <<experiments, selected_project, models, trial_data, dirs, topics, lastCall>>
    /\ UNCHANGED <<trials, next_eid, lockHolder>>
    /\ UNCHANGED <<dbVars, numVars>>

ExprOps == {"one", "search", "exists", "update", "unset", "delete"}

InitExpr ==
    /\ DbIdle
    /\ NumIdle
    /\ TrialIdle
    /\ ModelIdle

NextExpr ==
    \/ \E op \in ExprOps, keys \in ExprKeys : ControllerCall(op, keys)
    \/ \E name \in ExprNames, mkdirp_ok \in BOOLEAN : ExprCreate(name, mkdirp_ok)
    \/ \E proj \in Projects : SelectProject(proj)

SpecExpr == InitExpr /\ [][NextExpr]_vars

\* Experiment.select run by concurrent processes while experiments are created
\* and deleted in the selected project.
NextSelect ==
    \/ \E p \in Procs, name \in ExprNames : SelectSearch(p, name)
    \/ \E p \in Procs : SelectWrite(p)
    \/ \E name \in ExprNames, mkdirp_ok \in BOOLEAN : ExprCreate(name, mkdirp_ok)
    \/ \E keys \in ExprKeys : ControllerCall("delete", keys)

SpecSelect == InitExpr /\ [][NextSelect]_vars

(***************************************************************************)
(* Experiment.verify at creation and Application.on_update                 *)
(***************************************************************************)
MaxRecorded == 1     \* trials recorded for one experiment in SpecVerify

\* The Target, Application and Measurement records an experiment may be made
\* of: either mpi flag, and at most one of the three missing from project 2.
ModelConfigs ==
    {[target      |-> [projects |-> {proj \in Projects : absent # "target" \/ proj = 1}],
      application |-> [mpi |-> app_mpi,
                       projects |-> {proj \in Projects : absent # "application" \/ proj = 1}],
      measurement |-> [mpi |-> meas_mpi,
                       projects |-> {proj \in Projects : absent # "measurement" \/ proj = 1}]] :
        absent \in ModelKinds \cup {None}, app_mpi \in BOOLEAN, meas_mpi \in BOOLEAN}

RECURSIVE data_size(_)
\* Experiment.data_size: sum of int(trial.get('data_size', 0)) over the trials
data_size(sizes) ==
    IF sizes = <<>> THEN 0 ELSE Head(sizes) + data_size(Tail(sizes))

\* A trial of experiment e ends and leaves its data_size (0 when it has none).
RecordTrial(e, size) ==
    /\ e \in DOMAIN experiments
    /\ Len(trial_data[e]) < MaxRecorded
    /\ trial_data' = [trial_data EXCEPT ![e] = Append(@, size)]
    /\ lastCall' = [op |-> "perform"]
    /\ UNCHANGED <<experiments, selected_project, selected, models, dirs, topics>>
    /\ UNCHANGED <<dbVars, numVars, trialVars>>

\* expr_ctrl.search({'application': self.eid}): the search goes through
\* _restrict_project like every search of the ExperimentController.
UsingApplication(table, project_eid) ==
    Matching(table, _restrict_project([kind |-> "dict", match_any |-> FALSE,
                                       fields |-> [application |-> 1]], project_eid))

\* Application.on_update on the record as updated: what it raises, and the
\* experiments the error message names.
on_update(ms, found) ==
    LET using_app == {e \in found : data_size(trial_data[e]) > 0}
        invalid   == {e \in found : ~verify(ms, experiments[e].project)}
    IN  CASE using_app # {} ->
                [err |-> "ImmutableRecordError", named |-> using_app]
          [] invalid # {} ->
                [err |-> "ConfigurationError", named |-> {MinOf(invalid)}]
          [] OTHER -> [err |-> None, named |-> {}]

\* Application.controller().update({'mpi': mpi}, eid): Controller.update writes
\* the field, runs on_update and puts the old record back when on_update raises.
ApplicationUpdate(mpi) ==
    LET changed == [models EXCEPT !.application.mpi = mpi]
        raised  == on_update(changed, UsingApplication(experiments, selected_project))
    IN  /\ models' = IF raised.err = None THEN changed ELSE models
        /\ lastCall' = [op |-> "update_application", mpi |-> mpi, err |-> raised.err,
                        named |-> raised.named]
        /\ UNCHANGED <<experiments, selected_project, selected, trial_data, dirs, topics>>
        /\ UNCHANGED <<dbVars, numVars, trialVars>>

InitVerify ==
    /\ DbIdle
    /\ NumIdle
    /\ TrialIdle
    /\ experiments = EmptyTable
    /\ selected_project = 1
    /\ selected = [q \in Projects |-> <<>>]
    /\ models \in ModelConfigs
    /\ trial_data = EmptyTable
    /\ dirs = {}
    /\ topics = <<>>
    /\ lastCall = NoControllerCall

NextVerify ==
    \/ \E mkdirp_ok \in BOOLEAN : ExprCreate("a", mkdirp_ok)
    \/ \E proj \in Projects : SelectProject(proj)
    \/ \E e \in 1..MaxExprs, size \in 0..1 : RecordTrial(e, size)
    \/ \E mpi \in BOOLEAN : ApplicationUpdate(mpi)

SpecVerify == InitVerify /\ [][NextVerify]_vars

(***************************************************************************)
(* The 'rebuild_required' topic: Application.attribute_changed pushes to   *)
(* it, Experiment.rebuild_required drains it.                              *)
(***************************************************************************)
MaxPushes == 3     \* payloads in the topic at one time

\* {attr: (old_value, new_value)} for the attribute mpi: <<old, new>>.
Payloads ==
    {<<old, new>> : old \in {None, "True", "False"}, new \in {None, "True", "False"}}
        \ {<<v, v>> : v \in {None, "True", "False"}}

\* Controller.push_to_topic: the payload is put behind the ones already there.
push_to_topic(topic, payload) == Append(topic, payload)

\* Controller.pop_topic: the payloads are handed out and the topic is cleared.
pop_topic(topic) == [returned |-> topic, left |-> <<>>]

\* One line of the message, by the three cases of the loop body.
RebuildLine(change) ==
    CASE change[1] = None -> <<"is now set to", change[2]>>
      [] change[2] = None -> <<"is now unset">>
      [] OTHER            -> <<"changed from", change[1], change[2]>>

\* The mutant: the header is returned for an empty topic too.
rebuild_required_AlwaysHeader(drained) ==
    <<"Application rebuild required:">> \o [i \in 1..Len(drained) |-> RebuildLine(drained[i])]

\* Experiment.rebuild_required: the lines of the string it returns, <<>> for ''.
rebuild_required(drained) ==
    IF drained = <<>>
    THEN <<>>
    ELSE <<"Application rebuild required:">>
             \o [i \in 1..Len(drained) |-> RebuildLine(drained[i])]

\* The payloads pushed since the last drain, as the calls themselves recorded them.
Pushed == IF lastCall.op = "attribute_changed" THEN lastCall.pushed ELSE <<>>

\* Application.attribute_changed: pushes when the application is selected.
AttributeChanged(is_selected, change) ==
    /\ Len(topics) < MaxPushes
    /\ topics' = IF is_selected THEN push_to_topic(topics, change) ELSE topics
    /\ lastCall' = [op |-> "attribute_changed",
                    pushed |-> IF is_selected THEN Append(Pushed, change) ELSE Pushed]
    /\ UNCHANGED <<experiments, selected_project, selected, models, trial_data, dirs>>
    /\ UNCHANGED <<dbVars, numVars, trialVars>>

\* Experiment.rebuild_required
RebuildRequired ==
    LET popped == pop_topic(topics)
    IN  /\ topics' = popped.left
        /\ lastCall' = [op |-> "rebuild_required", pushed |-> Pushed,
                        drained |-> popped.returned,
                        text |-> rebuild_required(popped.returned)]
        /\ UNCHANGED <<experiments, selected_project, selected, models, trial_data, dirs>>
        /\ UNCHANGED <<dbVars, numVars, trialVars>>

NextTopic ==
    \/ \E is_selected \in BOOLEAN, change \in Payloads : AttributeChanged(is_selected, change)
    \/ RebuildRequired

SpecTopic == InitExpr /\ [][NextTopic]_vars

(***************************************************************************)
(* Application.attribute_changed and Application.is_selected: the project *)
(* store holds experiments of two applications, one project is selected   *)
(* or none, and each project has a selected experiment or none.            *)
(***************************************************************************)
Applications == {1, 2}
NoProject    == 0     \* Project.controller().selected() finds no selected project

\* The changes of the boolean attribute mpi that reach the on_change hook.
MpiChanges == {<<"False", "True">>, <<"True", "False">>}

\* Project.controller().selected().experiment(): the selected experiment's eid.
selected_experiment(project, sel) ==
    CASE project = NoProject -> [err |-> "ProjectSelectionError", eid |-> 0]
      [] sel[project] = <<>> -> [err |-> "ExperimentSelectionError", eid |-> 0]
      [] OTHER               -> [err |-> None, eid |-> sel[project][1]]

\* The mutant: every application counts as selected once an experiment is.
is_selected_AnyApplication(app, table, project, sel) ==
    LET found == selected_experiment(project, sel)
    IN  [err |-> None, value |-> found.err = None]

\* Application.is_selected: both selection errors are caught and give False.
is_selected(app, table, project, sel) ==
    LET found == selected_experiment(project, sel)
    IN  IF found.err \in {"ProjectSelectionError", "ExperimentSelectionError"}
        THEN [err |-> None, value |-> FALSE]
        ELSE [err |-> found.err, value |-> table[found.eid].application = app]

\* Application.attribute_changed, the on_change hook of every attribute.
ApplicationChanged(app, change) ==
    LET is == is_selected(app, experiments, selected_project, selected)
    IN  /\ Len(topics) < MaxPushes
        /\ topics' = IF is.err = None /\ is.value
                     THEN push_to_topic(topics, change)
                     ELSE topics
        /\ lastCall' = [op |-> "on_change", app |-> app, change |-> change,
                        before |-> topics, err |-> is.err]
        /\ UNCHANGED <<experiments, selected_project, selected, models, trial_data, dirs>>
        /\ UNCHANGED <<dbVars, numVars, trialVars>>

\* The experiment tables of the store: record ids from 1, names unique in a project.
ChangeTables ==
    {t \in UNION {[1..n -> [name : ExprNames, project : Projects,
                            application : Applications]] : n \in 0..MaxExprs} :
        \A e1, e2 \in DOMAIN t :
            t[e1].name = t[e2].name /\ t[e1].project = t[e2].project => e1 = e2}

InitChange ==
    /\ DbIdle
    /\ NumIdle
    /\ TrialIdle
    /\ experiments \in ChangeTables
    /\ selected_project \in Projects \cup {NoProject}
    /\ selected \in [Projects -> {<<>>} \cup {<<e>> : e \in DOMAIN experiments}]
    /\ \A q \in Projects : selected[q] # <<>> => experiments[selected[q][1]].project = q
    /\ models = CompatibleModels
    /\ trial_data = [e \in DOMAIN experiments |-> <<>>]
    /\ dirs = {prefix(experiments[e]) : e \in DOMAIN experiments}
    /\ topics = <<>>
    /\ lastCall = NoControllerCall

NextChange ==
    \/ \E app \in Applications, change \in MpiChanges : ApplicationChanged(app, change)
    \/ RebuildRequired

SpecChange == InitChange /\ [][NextChange]_vars

(***************************************************************************)
(* The on_create and on_delete hooks of Project, Experiment and Trial     *)
(* under Controller.create and Controller.delete.  The project table is   *)
(* the domain of selected (each project record holds its pointer), and a  *)
(* record's data directory is named by its type and id.                    *)
(***************************************************************************)
MaxEntities == 2     \* highest record id of each table

EntityKinds == {"project", "experiment", "trial"}

TableOf(kind) ==
    CASE kind = "project"    -> selected
      [] kind = "experiment" -> experiments
      [] kind = "trial"      -> trials

\* Project.on_create: mkdirp(prefix) failing is raised as ConfigurationError.
Project_on_create(mkdirp_ok) ==
    [err |-> IF mkdirp_ok THEN None ELSE "ConfigurationError", dir |-> mkdirp_ok]

\* The mutant: a failing mkdirp is passed over.
Trial_on_create_Swallow(mkdirp_ok) == [err |-> None, dir |-> mkdirp_ok]

\* Trial.on_create: mkdirp(self.prefix) failing is raised as ConfigurationError.
Trial_on_create(mkdirp_ok) ==
    [err |-> IF mkdirp_ok THEN None ELSE "ConfigurationError", dir |-> mkdirp_ok]

\* Project.on_delete: rmtree(prefix) fails when there is no directory or when it
\* cannot be removed; the failure is logged when the directory is still there,
\* and nothing is raised.
Project_on_delete(has_dir, rmtree_ok) ==
    [err |-> None, logged |-> has_dir /\ ~rmtree_ok, dir |-> has_dir /\ ~rmtree_ok]

\* Experiment.on_delete, the same with the experiment's prefix.
Experiment_on_delete(has_dir, rmtree_ok) ==
    [err |-> None, logged |-> has_dir /\ ~rmtree_ok, dir |-> has_dir /\ ~rmtree_ok]

\* The mutant: the error of rmtree leaves the hook.
Trial_on_delete_Raises(has_dir, rmtree_ok) ==
    [err |-> IF has_dir /\ rmtree_ok THEN None ELSE "OSError", logged |-> FALSE,
     dir |-> has_dir /\ ~rmtree_ok]

\* Trial.on_delete, the same with the trial's prefix.
Trial_on_delete(has_dir, rmtree_ok) ==
    [err |-> None, logged |-> has_dir /\ ~rmtree_ok, dir |-> has_dir /\ ~rmtree_ok]

\* Controller.delete: on_delete runs, then the record is removed; an error
\* leaving on_delete ends the call before the removal.
Controller_delete(table, eid, err) ==
    IF err = None THEN [e \in DOMAIN table \ {eid} |-> table[e]] ELSE table

\* The names no experiment of the selected project has.
FreeNames == {n \in ExprNames : ~_check_unique(experiments, [name |-> n, project |-> selected_project])}

NewRecord(kind, eid) ==
    CASE kind = "project"    -> <<>>
      [] kind = "experiment" -> [name |-> CHOOSE n \in FreeNames : TRUE,
                                 project |-> selected_project, application |-> 1]
      [] kind = "trial"      -> [number |-> eid, phase |-> CreatePhase]

\* Controller.create of one entity type, mkdirp succeeding or not.
CreateEntity(kind, mkdirp_ok) ==
    LET table == TableOf(kind)
        eid   == MaxOf(DOMAIN table \cup {0}) + 1
        hook  == CASE kind = "project"    -> Project_on_create(mkdirp_ok)
                   [] kind = "experiment" -> on_create(models, selected_project, mkdirp_ok)
                   [] kind = "trial"      -> Trial_on_create(mkdirp_ok)
        after == Controller_create(table, eid, NewRecord(kind, eid), hook.err)
    IN  /\ eid <= MaxEntities
        /\ kind = "experiment" => selected_project \in DOMAIN selected /\ FreeNames # {}
        /\ selected' = IF kind = "project" THEN after ELSE selected
        /\ experiments' = IF kind = "experiment" THEN after ELSE experiments
        /\ trial_data' = IF kind = "experiment"
                         THEN Controller_create(trial_data, eid, <<>>, hook.err)
                         ELSE trial_data
        /\ trials' = IF kind = "trial" THEN after ELSE trials
        /\ dirs' = IF hook.dir THEN dirs \cup {<<kind, eid>>} ELSE dirs
        /\ lastCall' = [op |-> "create_entity", kind |-> kind, eid |-> eid,
                        mkdirp_ok |-> mkdirp_ok, err |-> hook.err,
                        before |-> Cardinality(DOMAIN table)]
        /\ UNCHANGED <<selected_project, models, topics>>
        /\ UNCHANGED <<next_eid, lockHolder, pc, loc>>
        /\ UNCHANGED <<dbVars, numVars>>

\* Controller.delete of one record, rmtree succeeding or not.
DeleteEntity(kind, eid, rmtree_ok) ==
    LET table == TableOf(kind)
        has   == <<kind, eid>> \in dirs
        hook  == CASE kind = "project"    -> Project_on_delete(has, rmtree_ok)
                   [] kind = "experiment" -> Experiment_on_delete(has, rmtree_ok)
                   [] kind = "trial"      -> Trial_on_delete(has, rmtree_ok)
        after == Controller_delete(table, eid, hook.err)
    IN  /\ eid \in DOMAIN table
        /\ selected' = IF kind = "project" THEN after ELSE selected
        /\ experiments' = IF kind = "experiment" THEN after ELSE experiments
        /\ trial_data' = IF kind = "experiment"
                         THEN Controller_delete(trial_data, eid, hook.err)
                         ELSE trial_data
        /\ trials' = IF kind = "trial" THEN after ELSE trials
        /\ dirs' = IF hook.dir THEN dirs ELSE dirs \ {<<kind, eid>>}
        /\ lastCall' = [op |-> "delete_entity", kind |-> kind, eid |-> eid,
                        rmtree_ok |-> rmtree_ok, err |-> hook.err,
                        logged |-> hook.logged]
        /\ UNCHANGED <<selected_project, models, topics>>
        /\ UNCHANGED <<next_eid, lockHolder, pc, loc>>
        /\ UNCHANGED <<dbVars, numVars>>

NextHooks ==
    \/ \E kind \in EntityKinds, mkdirp_ok \in BOOLEAN : CreateEntity(kind, mkdirp_ok)
    \/ \E kind \in EntityKinds, eid \in 1..MaxEntities, rmtree_ok \in BOOLEAN :
           DeleteEntity(kind, eid, rmtree_ok)

SpecHooks == InitExpr /\ [][NextHooks]_vars

(***************************************************************************)
(* JsonDatabase: the calls on a store that holds records already, opened   *)
(* read-write or read-only, with every form of `keys`.                     *)
(***************************************************************************)
\* keys=None besides an element identifier, a list of them and a field mapping.
AllKeyForms == KeyForms \cup {[kind |-> "none"]}

\* The records of a table matching a field mapping.
Query(table, keys) ==
    {e \in DOMAIN table : _query(keys.fields, keys.match_any, table[e])}

\* JsonDatabase.get: int(keys) gives table.get(eid=eid); anything else must be a
\* dict (assert) and gives the first record matching the query.  `if found:`
\* tests the record, a dict, for truth: a record without fields reads as None.
get(table, keys) ==
    CASE keys.kind = "eid"  ->
            [err |-> None,
             found |-> {e \in {keys.eid} \cap DOMAIN table : table[e] # EmptyTable}]
      [] keys.kind = "dict" ->
            [err |-> None,
             found |-> IF Query(table, keys) = {} THEN {} ELSE {MinOf(Query(table, keys))}]
      [] OTHER -> [err |-> "AssertionError", found |-> {}]

\* The mutant: a field mapping is passed over and every record is returned.
search_IgnoresKeys(table, keys) ==
    CASE keys.kind \in {"none", "dict"} -> [err |-> None, found |-> DOMAIN table]
      [] OTHER -> [err |-> "AttributeError", found |-> {}]

\* JsonDatabase.search: `if keys:` runs _query(keys), which iterates a dict's
\* items; without keys it returns table.all().
search(table, keys) ==
    CASE keys.kind = "none" -> [err |-> None, found |-> DOMAIN table]
      [] keys.kind = "dict" -> [err |-> None, found |-> Query(table, keys)]
      [] OTHER -> [err |-> "AttributeError", found |-> {}]

\* JsonDatabase.contains: an int, a list or a dict; anything else returns False.
contains(table, keys) ==
    CASE keys.kind = "eid"  -> [err |-> None, found |-> {keys.eid} \cap DOMAIN table]
      [] keys.kind = "eids" -> [err |-> None, found |-> keys.eids \cap DOMAIN table]
      [] keys.kind = "dict" -> [err |-> None, found |-> Query(table, keys)]
      [] OTHER -> [err |-> None, found |-> {}]

\* JsonDatabase.count: len(table).
count(table) == [err |-> None, found |-> DOMAIN table]

ReadOps  == {"count", "get", "search", "contains"}
WriteOps == {"insert", "update", "unset", "remove", "purge"}

\* One of the reading calls: nothing is written, lastOp holds what it returned.
Read(name, keys) ==
    LET out == CASE name = "get"      -> get(file, keys)
                 [] name = "search"   -> search(file, keys)
                 [] name = "contains" -> contains(file, keys)
                 [] name = "count"    -> count(file)
    IN  /\ name = "count" => keys.kind = "none"
        /\ lastOp' = Merge(Op(name, FALSE, FALSE, out.err # None, FALSE),
                           [err |-> out.err, keys |-> keys, found |-> out.found])
        /\ UNCHANGED <<file, db_copy, transaction_count, last_id, readonly, scopes, entryFile>>
        /\ UNCHANGED <<numVars, trialVars, modelVars>>

\* The tables a store file can hold when it is opened.
StoredTables == UNION {[D -> Records] : D \in SUBSET (1..MaxEid)}

InitKeys ==
    /\ file \in StoredTables
    /\ db_copy = <<>>
    /\ transaction_count = 0
    /\ last_id = MaxOf(DOMAIN file \cup {0})
    /\ readonly \in BOOLEAN
    /\ scopes = 0
    /\ entryFile = <<>>
    /\ lastOp = Op("init", FALSE, FALSE, FALSE, FALSE)
    /\ NumIdle
    /\ TrialIdle
    /\ ModelIdle

NextKeys ==
    \/ \E name \in ReadOps, keys \in AllKeyForms : Read(name, keys)
    \/ \E fields \in Records : insert(fields)
    \/ \E fields \in Records \ {EmptyTable}, keys \in AllKeyForms : update(fields, keys)
    \/ \E field \in Fields, keys \in AllKeyForms : unset(field, keys)
    \/ \E keys \in AllKeyForms : remove(keys)
    \/ purge

SpecKeys == InitKeys /\ [][NextKeys]_vars

(***************************************************************************)
(* JsonDatabase._query on records of two fields: search with a field       *)
(* mapping of one or two fields, joined by & or by |.                      *)
(***************************************************************************)
QueryFields  == {"f", "g"}
QueryRecords == UNION {[D -> Vals] : D \in SUBSET QueryFields}
QueryTables  == UNION {[D -> QueryRecords] : D \in SUBSET (1..MaxEid)}

QueryKeys ==
    [kind : {"dict"}, fields : QueryRecords \ {EmptyTable}, match_any : BOOLEAN]

InitQuery ==
    /\ file \in QueryTables
    /\ db_copy = <<>>
    /\ transaction_count = 0
    /\ last_id = MaxOf(DOMAIN file \cup {0})
    /\ readonly \in BOOLEAN
    /\ scopes = 0
    /\ entryFile = <<>>
    /\ lastOp = Op("init", FALSE, FALSE, FALSE, FALSE)
    /\ NumIdle
    /\ TrialIdle
    /\ ModelIdle

NextQuery == \E keys \in QueryKeys : Read("search", keys)

SpecQuery == InitQuery /\ [][NextQuery]_vars

(***************************************************************************)
(* Measurement.onCreate: the check of the name's characters.               *)
(***************************************************************************)
MaxNameLen == 3     \* characters in a measurement name

\* Measurement._valid_name, two of its characters standing for digits, letters
\* and '-_.', and one of the characters outside it.
_valid_name == {"a", "."}
NameChars   == _valid_name \cup {" "}
Names       == UNION {[1..n -> NameChars] : n \in 1..MaxNameLen}

\* Measurement.onCreate: `if set(self['name']) > Measurement._valid_name`, the
\* test for a proper superset.
onCreate(name) ==
    LET chars == {name[i] : i \in 1..Len(name)}
    IN  IF _valid_name \subseteq chars /\ chars # _valid_name THEN "ModelError" ELSE None

\* Measurement create: the record of the model gets the name unless onCreate raised.
MeasurementCreate(name) ==
    /\ models' = IF onCreate(name) = None
                 THEN [models EXCEPT !.measurement = Merge(@, [name |-> name])]
                 ELSE models
    /\ lastCall' = [op |-> "create_measurement", name |-> name, err |-> onCreate(name)]
    /\ UNCHANGED <<experiments, selected_project, selected, trial_data, dirs, topics>>
    /\ UNCHANGED <<dbVars, numVars, trialVars>>

NextName == \E name \in Names : MeasurementCreate(name)

SpecName == InitExpr /\ [][NextName]_vars

(***************************************************************************)
(* Experiment.trials(trial_numbers) with a non-empty list of numbers.      *)
(***************************************************************************)
MaxWanted == 2     \* trial numbers asked for in one call

\* The lists of trial numbers a caller passes.
WantedNumbers == UNION {[1..n -> 0..MaxNumber] : n \in 1..MaxWanted}

\* The loop of Experiment.trials: `trials = []` is the first statement of the
\* loop body, one({'experiment': self.eid, 'number': num}) looks the trial up,
\* a number without a trial raises, a trial found is appended.
RECURSIVE TrialsLoop(_, _, _)
TrialsLoop(nums, wanted, sofar) ==
    IF wanted = <<>>
    THEN [err |-> None, returned |-> sofar]
    ELSE LET emptied == <<>>
         IN  IF Head(wanted) \notin Range(nums)
             THEN [err |-> "ConfigurationError", returned |-> <<>>]
             ELSE TrialsLoop(nums, Tail(wanted), Append(emptied, Head(wanted)))

\* Experiment.trials for `if trial_numbers:`; the trials are named by their numbers.
trials_of(nums, trial_numbers) == TrialsLoop(nums, trial_numbers, <<>>)

InitTrials ==
    /\ numbers \in {sorted(s) : s \in DistinctSeqs}
    /\ result = <<>>
    /\ DbIdle
    /\ TrialIdle
    /\ ModelIdle

CallTrials(trial_numbers) ==
    /\ result' = <<Merge(trials_of(numbers, trial_numbers), [wanted |-> trial_numbers])>>
    /\ UNCHANGED numbers
    /\ UNCHANGED <<dbVars, trialVars, modelVars>>

NextTrials == \E trial_numbers \in WantedNumbers : CallTrials(trial_numbers)

SpecTrials == InitTrials /\ [][NextTrials]_vars

(***************************************************************************)
(* Experiment.select as one call, on every experiment table, among them    *)
(* tables in which a name occurs twice in a project.                       *)
(***************************************************************************)
\* The mutant: of several experiments with the name the first is taken.
select_FirstOfMany(matching) ==
    IF matching = {}
    THEN [err |-> "ExperimentSelectionError", expr |-> <<>>]
    ELSE [err |-> None, expr |-> <<MinOf(matching)>>]

\* Experiment.select: the three branches on the experiments that search returned.
select(matching) ==
    CASE matching = {}             -> [err |-> "ExperimentSelectionError", expr |-> <<>>]
      [] Cardinality(matching) > 1 -> [err |-> "InternalError", expr |-> <<>>]
      [] OTHER                     -> [err |-> None, expr |-> <<MinOf(matching)>>]

\* Experiment.select(name): search by name and project, then
\* proj_ctrl.select(proj, expr) writes the pointer of the selected project.
Select(name) ==
    LET matching == Matching(experiments,
                        [kind |-> "dict", match_any |-> FALSE,
                         fields |-> [name |-> name, project |-> selected_project]])
        out      == select(matching)
    IN  /\ selected' = IF out.err = None
                       THEN [selected EXCEPT ![selected_project] = out.expr]
                       ELSE selected
        /\ lastCall' = [op |-> "select", name |-> name, err |-> out.err,
                        before |-> selected[selected_project]]
        /\ UNCHANGED <<experiments, selected_project, models, trial_data, dirs, topics>>
        /\ UNCHANGED <<dbVars, numVars, trialVars>>

\* Every experiment table, names unique in a project or not.
AnyTables ==
    UNION {[1..n -> [name : ExprNames, project : Projects, application : {1}]] :
               n \in 0..MaxExprs}

InitPick ==
    /\ DbIdle
    /\ NumIdle
    /\ TrialIdle
    /\ experiments \in AnyTables
    /\ selected_project = 1
    /\ selected \in [Projects -> {<<>>} \cup {<<e>> : e \in DOMAIN experiments}]
    /\ \A q \in Projects : selected[q] # <<>> => experiments[selected[q][1]].project = q
    /\ models = CompatibleModels
    /\ trial_data = [e \in DOMAIN experiments |-> <<>>]
    /\ dirs = {prefix(experiments[e]) : e \in DOMAIN experiments}
    /\ topics = <<>>
    /\ lastCall = NoControllerCall

NextPick ==
    \/ \E name \in ExprNames : Select(name)
    \/ \E proj \in Projects : SelectProject(proj)

SpecPick == InitPick /\ [][NextPick]_vars

(***************************************************************************)
(* Project.get_project and Project.get_selected                            *)
(* (tau/core/project/controller.py) on every project storage: no project,  *)
(* one or several, each project's `selected` field unset, the id of an     *)
(* experiment of the storage or the id of an experiment that is gone.      *)
(***************************************************************************)
\* The mutant: of several projects the first is returned.
get_project_FirstOfMany(projs) ==
    IF projs = {}
    THEN [err |-> "InternalError", value |-> <<>>]
    ELSE [err |-> None, value |-> <<MinOf(projs)>>]

\* Project.get_project: projs are the records of ctrl.all().
get_project(projs) ==
    CASE projs = {}             -> [err |-> "InternalError", value |-> <<>>]
      [] Cardinality(projs) > 1 -> [err |-> "InternalError", value |-> <<>>]
      [] OTHER                  -> [err |-> None, value |-> <<MinOf(projs)>>]

\* The mutant: a pointer to an experiment that is gone reads as no selection.
get_selected_NoneWhenGone(pointers, exprs) ==
    LET proj == get_project(DOMAIN pointers)
    IN  CASE proj.err # None -> proj
          [] pointers[proj.value[1]] = <<>> -> [err |-> None, value |-> <<>>]
          [] pointers[proj.value[1]][1] \notin DOMAIN exprs -> [err |-> None, value |-> <<>>]
          [] OTHER -> [err |-> None, value |-> pointers[proj.value[1]]]

\* Project.get_selected: pointers maps each project of the storage to its
\* `selected` field, exprs is the experiment table.  value is <<>> for None.
get_selected(pointers, exprs) ==
    LET proj == get_project(DOMAIN pointers)
    IN  CASE proj.err # None -> proj
          [] pointers[proj.value[1]] = <<>> -> [err |-> None, value |-> <<>>]
          [] pointers[proj.value[1]][1] \notin DOMAIN exprs ->
                 [err |-> "InternalError", value |-> <<>>]
          [] OTHER -> [err |-> None, value |-> pointers[proj.value[1]]]

GetProject ==
    /\ lastCall' = Merge(get_project(DOMAIN selected), [op |-> "get_project"])
    /\ UNCHANGED <<experiments, selected_project, selected, models, trial_data, dirs, topics>>
    /\ UNCHANGED <<dbVars, numVars, trialVars>>

GetSelected ==
    /\ lastCall' = Merge(get_selected(selected, experiments), [op |-> "get_selected"])
    /\ UNCHANGED <<experiments, selected_project, selected, models, trial_data, dirs, topics>>
    /\ UNCHANGED <<dbVars, numVars, trialVars>>

\* Every experiment table with record ids among 1..MaxExprs.
SparseTables ==
    UNION {[D -> [name : ExprNames, project : Projects, application : {1}]] :
               D \in SUBSET (1..MaxExprs)}

InitProject ==
    /\ DbIdle
    /\ NumIdle
    /\ TrialIdle
    /\ experiments \in SparseTables
    /\ selected_project = 1
    /\ selected \in UNION {[P -> {<<>>} \cup {<<e>> : e \in 1..MaxExprs}] :
                               P \in SUBSET Projects}
    /\ models = CompatibleModels
    /\ trial_data = [e \in DOMAIN experiments |-> <<>>]
    /\ dirs = {}
    /\ topics = <<>>
    /\ lastCall = NoControllerCall

NextProject == GetProject \/ GetSelected

SpecProject == InitProject /\ [][NextProject]_vars

(***************************************************************************)
(* `tau initialize` (taucmdr/cli/commands/initialize.py): process p1 runs  *)
(* InitializeCommand.main, every command it calls one step that returns,   *)
(* returns a failure code or raises.  dirs holds "storage" while the       *)
(* prefix of PROJECT_STORAGE exists, models holds the names of the records *)
(* of the storage, selected_project is NoProject while none is selected.   *)
(***************************************************************************)
InitProc == "p1"

EmptyStorage == [project |-> {}, application |-> {}, target |-> {}, measurement |-> {}]

\* What the parser made of the command line: --bare and the measurements asked for.
InitArgs == [bare : BOOLEAN, sample : BOOLEAN, profile : BOOLEAN, trace : BOOLEAN]

\* A command returns EXIT_SUCCESS, returns another code, or raises.
CmdOutcomes == {"ok", "nonzero", "ConfigurationError", "SystemExit"}

\* The storage as one value.
Storage == [dirs |-> dirs, models |-> models, selected_project |-> selected_project,
            experiments |-> experiments, selected |-> selected]

InitFrame == UNCHANGED <<dbVars, numVars, trials, next_eid, lockHolder, trial_data, topics>>

\* PROJECT_STORAGE.destroy(): the prefix and every record in it are removed.
destroy ==
    /\ dirs' = {}
    /\ models' = EmptyStorage
    /\ selected_project' = NoProject
    /\ experiments' = EmptyTable
    /\ selected' = [q \in Projects |-> <<>>]

\* The mutant: the error propagates and the storage is left as it is.
Raise_KeepStorage(step, err) ==
    /\ UNCHANGED <<dirs, models, selected_project, experiments, selected>>
    /\ pc' = [pc EXCEPT ![InitProc] = "done"]
    /\ loc' = [loc EXCEPT ![InitProc] = Merge(@, [err |-> err, failed |-> step])]
    /\ lastCall' = Merge(lastCall, [err |-> err])
    /\ InitFrame

\* main's `except: PROJECT_STORAGE.destroy(); raise` around _create_project and
\* _populate_project.
Raise(step, err) ==
    /\ destroy
    /\ pc' = [pc EXCEPT ![InitProc] = "done"]
    /\ loc' = [loc EXCEPT ![InitProc] = Merge(@, [err |-> err, failed |-> step])]
    /\ lastCall' = Merge(lastCall, [err |-> err])
    /\ InitFrame

\* _safe_execute: a return code other than EXIT_SUCCESS is raised as InternalError.
_safe_execute(outcome) == IF outcome = "nonzero" THEN "InternalError" ELSE outcome

\* The command went through: the storage changes and main goes on at `next`.
Goes(next) ==
    /\ pc' = [pc EXCEPT ![InitProc] = next]
    /\ UNCHANGED lastCall
    /\ InitFrame

\* main up to the outcome of proj_ctrl.selected().
InitializeMain(args) ==
    /\ pc[InitProc] = "idle"
    /\ loc' = [loc EXCEPT ![InitProc] = Merge(args, [err |-> None, failed |-> None])]
    /\ lastCall' = [op |-> "initialize", before |-> Storage, err |-> None, retval |-> None]
    /\ InitFrame
    /\ CASE "storage" \notin dirs ->
                \* ProjectStorageError: PROJECT_STORAGE.connect_filesystem()
                /\ dirs' = {"storage"}
                /\ pc' = [pc EXCEPT ![InitProc] = "create_project"]
                /\ UNCHANGED <<models, selected_project, experiments, selected>>
         [] "storage" \in dirs /\ selected_project = NoProject ->
                \* ProjectSelectionError is raised again with another message
                /\ pc' = [pc EXCEPT ![InitProc] = "raised"]
                /\ UNCHANGED <<dirs, models, selected_project, experiments, selected>>
         [] OTHER ->
                /\ pc' = [pc EXCEPT ![InitProc] = "warned"]
                /\ UNCHANGED <<dirs, models, selected_project, experiments, selected>>

\* The two ends of main that touch nothing.
InitializeRaisesSelectionError ==
    /\ pc[InitProc] = "raised"
    /\ pc' = [pc EXCEPT ![InitProc] = "done"]
    /\ loc' = [loc EXCEPT ![InitProc] = Merge(@, [err |-> "ProjectSelectionError", failed |-> "selected"])]
    /\ lastCall' = Merge(lastCall, [err |-> "ProjectSelectionError"])
    /\ UNCHANGED <<dirs, models, selected_project, experiments, selected>>
    /\ InitFrame

InitializeWarns ==
    /\ pc[InitProc] = "warned"
    /\ pc' = [pc EXCEPT ![InitProc] = "done"]
    /\ lastCall' = Merge(lastCall, [retval |-> "EXIT_WARNING"])
    /\ UNCHANGED <<loc, dirs, models, selected_project, experiments, selected>>
    /\ InitFrame

\* _create_project: project_create_cmd.main, whose return code is not looked at;
\* on ConfigurationError the prefix is removed before main's handler runs.
CreateProject(outcome) ==
    /\ pc[InitProc] = "create_project"
    /\ IF outcome \in {"ConfigurationError", "SystemExit"}
       THEN Raise("create_project", outcome)
       ELSE /\ models' = IF outcome = "ok"
                         THEN [models EXCEPT !.project = {"project"}]
                         ELSE models
            /\ UNCHANGED <<dirs, selected_project, experiments, selected, loc>>
            /\ Goes("select_project")

\* _create_project's else branch: project_select_cmd.main([project_name]), which
\* cannot select a project that project_create_cmd did not create.
SelectCreatedProject(outcome) ==
    /\ pc[InitProc] = "select_project"
    /\ outcome # "nonzero"
    /\ IF outcome # "ok" \/ models.project = {}
       THEN Raise("select_project", IF outcome = "ok" THEN "ConfigurationError" ELSE outcome)
       ELSE /\ selected_project' = 1
            /\ UNCHANGED <<dirs, models, experiments, selected, loc>>
            /\ Goes(IF loc[InitProc].bare THEN "dashboard" ELSE "application")

\* _populate_project: application_create_cmd.
CreateApplication(outcome) ==
    /\ pc[InitProc] = "application"
    /\ IF outcome # "ok"
       THEN Raise("application", _safe_execute(outcome))
       ELSE /\ models' = [models EXCEPT !.application = {"application"}]
            /\ UNCHANGED <<dirs, selected_project, experiments, selected, loc>>
            /\ Goes("target")

\* _populate_project: target_create_cmd; without binutils sampling is turned off.
CreateTarget(outcome, binutils) ==
    /\ pc[InitProc] = "target"
    /\ IF outcome # "ok"
       THEN Raise("target", _safe_execute(outcome))
       ELSE /\ models' = [models EXCEPT !.target = {"target"}]
            /\ loc' = [loc EXCEPT ![InitProc].sample = @ /\ binutils]
            /\ UNCHANGED <<dirs, selected_project, experiments, selected>>
            /\ Goes("baseline")

\* The measurement created after `name`, given the measurements asked for.
NextMeasurement(name, args) ==
    CASE name = "baseline" /\ args.sample -> "sample"
      [] name \in {"baseline", "sample"} /\ args.profile -> "profile"
      [] name \in {"baseline", "sample", "profile"} /\ args.trace -> "trace"
      [] OTHER -> "select"

\* _populate_project: one call of measurement_create_cmd.
CreateMeasurement(name, outcome) ==
    /\ pc[InitProc] = name
    /\ IF outcome # "ok"
       THEN Raise(name, _safe_execute(outcome))
       ELSE /\ models' = [models EXCEPT !.measurement = @ \cup {name}]
            /\ UNCHANGED <<dirs, selected_project, experiments, selected, loc>>
            /\ Goes(NextMeasurement(name, loc[InitProc]))

\* measurement_names[0]
FirstMeasurement(args) == NextMeasurement("baseline", args)

\* _populate_project: select_cmd.main, whose return code is not looked at.
SelectExperiment(outcome) ==
    /\ pc[InitProc] = "select"
    /\ IF outcome \in {"ConfigurationError", "SystemExit"}
       THEN Raise("select", outcome)
       ELSE /\ IF outcome = "ok"
               THEN LET first == FirstMeasurement(loc[InitProc])
                    IN  /\ experiments' =
                               [e \in {1} |-> [project |-> 1,
                                  measurement |-> IF first = "select" THEN "baseline" ELSE first]]
                        /\ selected' = [selected EXCEPT ![1] = <<1>>]
               ELSE UNCHANGED <<experiments, selected>>
            /\ UNCHANGED <<dirs, models, selected_project, loc>>
            /\ Goes("dashboard")

\* main's `return dashboard_cmd.main([])`, after the try block.
Dashboard(outcome) ==
    /\ pc[InitProc] = "dashboard"
    /\ pc' = [pc EXCEPT ![InitProc] = "done"]
    /\ IF outcome \in {"ConfigurationError", "SystemExit"}
       THEN /\ loc' = [loc EXCEPT ![InitProc] = Merge(@, [err |-> outcome, failed |-> "dashboard"])]
            /\ lastCall' = Merge(lastCall, [err |-> outcome])
       ELSE /\ lastCall' = Merge(lastCall,
                             [retval |-> IF outcome = "ok" THEN "EXIT_SUCCESS" ELSE "nonzero"])
            /\ UNCHANGED loc
    /\ UNCHANGED <<dirs, models, selected_project, experiments, selected>>
    /\ InitFrame

\* The next `tau initialize` of the same user.
InitializeAgain ==
    /\ pc[InitProc] = "done"
    /\ pc' = [pc EXCEPT ![InitProc] = "idle"]
    /\ loc' = [loc EXCEPT ![InitProc] = NoCall]
    /\ UNCHANGED <<dirs, models, selected_project, experiments, selected, lastCall>>
    /\ InitFrame

\* No project storage yet, or one whose project was created but not selected.
InitInitialize ==
    /\ DbIdle
    /\ NumIdle
    /\ TrialIdle
    /\ experiments = EmptyTable
    /\ selected = [q \in Projects |-> <<>>]
    /\ selected_project = NoProject
    /\ \/ dirs = {} /\ models = EmptyStorage
       \/ dirs = {"storage"} /\ models = [EmptyStorage EXCEPT !.project = {"project"}]
    /\ trial_data = EmptyTable
    /\ topics = <<>>
    /\ lastCall = NoControllerCall

NextInitialize ==
    \/ \E args \in InitArgs : InitializeMain(args)
    \/ InitializeRaisesSelectionError
    \/ InitializeWarns
    \/ \E outcome \in CmdOutcomes : CreateProject(outcome)
    \/ \E outcome \in CmdOutcomes : SelectCreatedProject(outcome)
    \/ \E outcome \in CmdOutcomes : CreateApplication(outcome)
    \/ \E outcome \in CmdOutcomes, binutils \in BOOLEAN : CreateTarget(outcome, binutils)
    \/ \E name \in {"baseline", "sample", "profile", "trace"}, outcome \in CmdOutcomes :
           CreateMeasurement(name, outcome)
    \/ \E outcome \in CmdOutcomes : SelectExperiment(outcome)
    \/ \E outcome \in CmdOutcomes : Dashboard(outcome)
    \/ InitializeAgain

SpecInitialize == InitInitialize /\ [][NextInitialize]_vars

(***************************************************************************)
(* Experiment.trials() without trial numbers, on every list of trial       *)
(* records perform leaves: 'begin_time' is written by _perform_interactive *)
(* together with phase 'executing', and by nothing else.                   *)
(***************************************************************************)
MaxRecent == 2     \* trials of the experiment
MaxTime   == 2     \* begin_time ranges over 1..MaxTime

\* The records of an experiment's trials: created and not yet executing, run
\* through qsub on BlueGene (no begin_time), or run interactively.
RecentRecords ==
    [phase : {"initializing", "executing", "completed", "failed"}]
    \cup [phase : {"executing", "completed", "failed"}, begin_time : 1..MaxTime]

\* record['begin_time'] of a record that has no such field raises KeyError.
HasBeginTime(rec) == "begin_time" \in DOMAIN rec

\* The loop `for trial in trials[1:]` with `found` so far.
RECURSIVE MostRecentLoop(_, _)
MostRecentLoop(rest, found) ==
    IF rest = <<>>
    THEN [err |-> None, returned |-> <<found>>]
    ELSE IF ~HasBeginTime(Head(rest)) \/ ~HasBeginTime(found)
         THEN [err |-> "KeyError", returned |-> <<>>]
         ELSE MostRecentLoop(Tail(rest),
                  IF Head(rest).begin_time > found.begin_time THEN Head(rest) ELSE found)

\* Experiment.trials for a false `trial_numbers`; recs is self.populate('trials').
most_recent(recs) ==
    IF recs = <<>>
    THEN [err |-> "ConfigurationError", returned |-> <<>>]
    ELSE MostRecentLoop(Tail(recs), Head(recs))

InitRecent ==
    /\ DbIdle
    /\ ModelIdle
    /\ numbers = <<>>
    /\ result = <<>>
    /\ trials \in UNION {[1..n -> RecentRecords] : n \in 0..MaxRecent}
    /\ next_eid = Cardinality(DOMAIN trials) + 1
    /\ lockHolder = NoProc
    /\ pc = [p \in Procs |-> "idle"]
    /\ loc = [p \in Procs |-> NoCall]

CallMostRecent ==
    /\ result' = <<most_recent([i \in 1..Cardinality(DOMAIN trials) |-> trials[i]])>>
    /\ UNCHANGED numbers
    /\ UNCHANGED <<dbVars, trialVars, modelVars>>

NextRecent == CallMostRecent

SpecRecent == InitRecent /\ [][NextRecent]_vars

(***************************************************************************)
(* Trial.parse_launcher_cmd (taucmdr/model/trial.py) on every command line *)
(* of up to MaxCmdLen words.                                               *)
(***************************************************************************)
MaxCmdLen == 4     \* words of a command line

\* The words: the separator, two launchers (mpirun takes an application file,
\* aprun does not), an executable, the MPMD separator, the application file
\* flag alone and with its value, and a readable file that is no executable.
Words == {"--", "mpirun", "aprun", "a.out", ":", "-app", "-app=f", "f"}

CommandLines == UNION {[1..n -> Words] : n \in 1..MaxCmdLen}

\* PROGRAM_LAUNCHERS: launcher -> flags that name an application file.
Launchers == {"mpirun", "aprun"}
appfile_flags(launcher) == IF launcher = "mpirun" THEN {"-app"} ELSE {}

\* util.which(exe) finds an executable; util.path_accessible(path)
which(word) == word \in {"mpirun", "aprun", "a.out"}
path_accessible(word) == word \in {"a.out", "f"}

\* word.split('='): the parts, <<>> when there are not exactly two (ValueError).
SplitEq(word) == IF word = "-app=f" THEN <<"-app", "f">> ELSE <<>>

\* The positions of cmd that hold `word` / satisfy which, in order.
First(S) == CHOOSE i \in S : \A j \in S : i <= j

\* The loop over cmd[1:] that looks for an application file: the flag and the
\* file in one word, or the flag followed by the file; at the last word the
\* lookup of the next one raises IndexError and the loop ends.
AppfileFound(cmd, flags) ==
    \E i \in 2..Len(cmd) :
        LET parts == SplitEq(cmd[i])
        IN  IF parts # <<>>
            THEN parts[1] \in flags /\ path_accessible(parts[2])
            ELSE i < Len(cmd) /\ cmd[i] \in flags /\ path_accessible(cmd[i + 1])

Separated(launcher_cmd, rest) == [err |-> None, launcher_cmd |-> launcher_cmd, rest |-> rest]

\* Trial._separate_launcher_cmd
_separate_launcher_cmd(cmd) ==
    LET dashes == {i \in 1..Len(cmd) : cmd[i] = "--"}
        exes   == {i \in 2..Len(cmd) : which(cmd[i])}
    IN  CASE dashes # {} ->
                 Separated(SubSeq(cmd, 1, First(dashes) - 1),
                           SubSeq(cmd, First(dashes) + 1, Len(cmd)))
          [] dashes = {} /\ cmd[1] \in Launchers /\ exes # {} ->
                 Separated(SubSeq(cmd, 1, First(exes) - 1), SubSeq(cmd, First(exes), Len(cmd)))
          [] dashes = {} /\ cmd[1] \in Launchers /\ exes = {} ->
                 IF AppfileFound(cmd, appfile_flags(cmd[1]))
                 THEN Separated(cmd, <<>>)
                 ELSE [err |-> "ConfigurationError", launcher_cmd |-> <<>>, rest |-> <<>>]
          [] OTHER -> Separated(<<>>, cmd)

\* application_cmds of an MPMD command: the words before the first ':', then
\* from each ':' up to the next one.
RECURSIVE SplitOnColons(_, _)
SplitOnColons(cmd, from) ==
    LET later == {i \in (from + 1)..Len(cmd) : cmd[i] = ":"}
        upto  == IF later = {} THEN Len(cmd) + 1 ELSE First(later)
    IN  IF from > Len(cmd) THEN <<>>
        ELSE <<SubSeq(cmd, from, upto - 1)>> \o SplitOnColons(cmd, upto)

Parsed(launcher_cmd, application_cmds) ==
    [err |-> None, launcher_cmd |-> launcher_cmd, application_cmds |-> application_cmds]

\* Trial.parse_launcher_cmd
parse_launcher_cmd(cmd) ==
    LET sep      == _separate_launcher_cmd(cmd)
        rest     == sep.rest
        num_exes == Cardinality({i \in 1..Len(rest) : which(rest[i])})
        colons   == {i \in 1..Len(rest) : rest[i] = ":"}
    IN  CASE sep.err # None -> Merge(Parsed(<<>>, <<>>), [err |-> sep.err])
          [] sep.err = None /\ sep.launcher_cmd = <<>> /\ rest = <<>> ->
                 Merge(Parsed(<<>>, <<>>), [err |-> "AssertionError"])
          [] sep.err = None /\ sep.launcher_cmd = <<>> /\ rest # <<>> -> Parsed(<<>>, <<rest>>)
          [] sep.err = None /\ sep.launcher_cmd # <<>> /\ rest = <<>> ->
                 Parsed(sep.launcher_cmd, <<>>)
          [] OTHER ->
                 IF num_exes <= 1 \/ colons = {}
                 THEN Parsed(sep.launcher_cmd, <<rest>>)
                 ELSE Parsed(sep.launcher_cmd,
                             <<SubSeq(rest, 1, First(colons) - 1)>>
                                 \o SplitOnColons(rest, First(colons)))

\* One call of parse_launcher_cmd, on the command line of the process.
ParseLauncherCmd(cmd) ==
    /\ lastCall = NoControllerCall
    /\ lastCall' = Merge(parse_launcher_cmd(cmd), [op |-> "parse_launcher_cmd", cmd |-> cmd])
    /\ UNCHANGED <<experiments, selected_project, selected, models, trial_data, dirs, topics>>
    /\ UNCHANGED <<dbVars, numVars, trialVars>>

NextParse == \E cmd \in CommandLines : ParseLauncherCmd(cmd)

SpecParse == InitExpr /\ [][NextParse]_vars

(***************************************************************************)
(* ExperimentController objects (taucmdr/model/experiment.py): each keeps  *)
(* the selected project it looked up first in _selected_project.  loc[p]   *)
(* is the controller object of process p.                                  *)
(***************************************************************************)
\* A controller as Experiment.controller() returns it: nothing looked up yet.
NewController == [_selected_project |-> <<>>]

\* ExperimentController._project_eid: the project kept from the first lookup,
\* else Project.controller(self.storage).selected() now.
_project_eid(ctrl) ==
    IF ctrl._selected_project # <<>> THEN ctrl._selected_project[1] ELSE selected_project

\* The data a caller passes to create: with or without a project of its own.
CreateData ==
    [name : ExprNames, application : {1}]
    \cup [name : ExprNames, application : {1}, project : Projects]

\* Experiment.controller(): the process takes a new controller object.
CtrlNew(p) ==
    /\ loc[p] # NewController
    /\ loc' = [loc EXCEPT ![p] = NewController]
    /\ lastCall' = [op |-> "controller"]
    /\ UNCHANGED <<experiments, selected_project, selected, models, trial_data, dirs, topics>>
    /\ UNCHANGED <<dbVars, numVars, trials, next_eid, lockHolder, pc>>

\* all(), or any call that goes through _restrict_project: the project is
\* looked up and kept.
CtrlAll(p) ==
    /\ loc' = [loc EXCEPT ![p]._selected_project = <<_project_eid(loc[p])>>]
    /\ lastCall' = [op |-> "all",
                    found |-> {e \in DOMAIN experiments :
                                  experiments[e].project = _project_eid(loc[p])}]
    /\ UNCHANGED <<experiments, selected_project, selected, models, trial_data, dirs, topics>>
    /\ UNCHANGED <<dbVars, numVars, trials, next_eid, lockHolder, pc>>

\* The mutant: a project the caller supplied is kept.
create_data_KeepSupplied(data_in, project_eid) ==
    IF "project" \in DOMAIN data_in THEN data_in ELSE Merge(data_in, [project |-> project_eid])

\* ExperimentController.create: data['project'] = self._project_eid
create_data(data_in, project_eid) == Merge(data_in, [project |-> project_eid])

\* ExperimentController.create(data) on the controller of process p.
CtrlCreate(p, data_in, mkdirp_ok) ==
    LET project_eid == _project_eid(loc[p])
        fields  == create_data(data_in, project_eid)
        eid     == MaxOf(DOMAIN experiments \cup {0}) + 1
        hook    == on_create(models, fields.project, mkdirp_ok)
        err     == IF _check_unique(experiments, [name |-> fields.name, project |-> fields.project])
                   THEN "UniqueAttributeError" ELSE hook.err
    IN  /\ err # None \/ eid <= MaxExprs
        /\ loc' = [loc EXCEPT ![p]._selected_project = <<project_eid>>]
        /\ experiments' = Controller_create(experiments, eid, fields, err)
        /\ trial_data' = Controller_create(trial_data, eid, <<>>, err)
        /\ dirs' = IF err = None THEN dirs \cup {prefix(fields)} ELSE dirs
        /\ lastCall' = [op |-> "create", data |-> data_in, err |-> err, eid |-> eid,
                        proc |-> p, first |-> loc[p] = NewController]
        /\ UNCHANGED <<selected_project, selected, models, topics>>
        /\ UNCHANGED <<dbVars, numVars, trials, next_eid, lockHolder, pc>>

InitCtrl ==
    /\ DbIdle
    /\ NumIdle
    /\ ModelIdle
    /\ trials = EmptyTable
    /\ next_eid = 1
    /\ lockHolder = NoProc
    /\ pc = [p \in Procs |-> "idle"]
    /\ loc = [p \in Procs |-> NewController]

NextCtrl ==
    \/ \E p \in Procs : CtrlNew(p)
    \/ \E p \in Procs : CtrlAll(p)
    \/ \E p \in Procs, data_in \in CreateData, mkdirp_ok \in BOOLEAN :
           CtrlCreate(p, data_in, mkdirp_ok)
    \/ \E proj \in Projects : SelectProject(proj)

SpecCtrl == InitCtrl /\ [][NextCtrl]_vars

(***************************************************************************)
(* Properties                                                              *)
(***************************************************************************)
Exists(p) == loc[p].eid \in DOMAIN trials
Phase(p)  == trials[loc[p].eid].phase
Ended(p)  == pc[p] \in {"done", "raised"}
\* The command of p's call was launched: perform got past create_subprocess.
Launched(p) ==
    \/ pc[p] \in {"ran", "else", "done"}
    \/ pc[p] \in {"except_delete", "except", "raised"}
       /\ loc[p].err \in {"rename", "noprofile", "notrace", "died", "queue"}

\* C1: when the outermost transactional scope exits with an exception, the file holds
\* again the content it had when that scope was entered, whatever was written inside.
C1_RollbackRestoresEntry ==
    (lastOp.op = "exit" /\ lastOp.ex /\ scopes = 0) => <<file>> = entryFile

\* C1 witness: an outermost exit with an exception whose rollback changed the file.
C1_Witness ==
    lastOp.op = "exit" /\ lastOp.ex /\ scopes = 0 /\ lastOp.changed

\* C2: the depth counter equals the number of open scopes; an exit writes the snapshot
\* back exactly when it is the outermost one and sees an exception, and the file is
\* then the outermost entry's content; a nested entry leaves the snapshot alone.
C2_OnlyOutermostExitRollsBack ==
    /\ transaction_count = scopes
    /\ lastOp.op = "exit" =>
          ((lastOp.wrote \/ lastOp.raised) <=> (lastOp.ex /\ scopes = 0))
    /\ (lastOp.op = "exit" /\ lastOp.wrote) => <<file>> = entryFile
    /\ (lastOp.op = "enter" /\ scopes > 1) => db_copy = entryFile

\* C2 witness: an inner scope has exited with an exception and the writes made
\* so far are still in the file.
C2_Witness ==
    /\ lastOp.op = "exit" /\ lastOp.ex /\ scopes = 1
    /\ <<file>> # entryFile

\* C3 as stated: while a scope is open the file keeps its scope-entry content.
C3_FileKeepsEntryContent == scopes > 0 => <<file>> = entryFile

\* C3 amended: while a scope is open it is the in-memory copy _db_copy that keeps
\* the scope-entry content; writes go to the file at once.
C3_CopyKeepsEntryContent == scopes > 0 => db_copy = entryFile

\* C3 witness: inside a scope, a write has changed the file and the copy still
\* holds the entry content.
C3_Witness ==
    /\ scopes > 0
    /\ lastOp.op \in {"insert", "update", "unset", "remove", "purge"}
    /\ lastOp.changed
    /\ <<file>> # entryFile
    /\ db_copy = entryFile

\* C4: next_trial_number returns the smallest non-negative integer that no trial
\* uses: 0 with no trials, the lowest gap if there is one, else the number of trials.
C4_SmallestUnusedNumber ==
    result # <<>> =>
        /\ result[1] \notin Range(numbers)
        /\ \A k \in 0..(result[1] - 1) : k \in Range(numbers)
        /\ numbers = <<>> => result[1] = 0
        /\ Range(numbers) = 0..(Len(numbers) - 1) => result[1] = Len(numbers)

\* C4 witness: trials 0 and 2 exist, trial 1 was deleted, and 1 is returned.
C4_Witness == result = <<1>> /\ Range(numbers) = {0, 2}

\* C5: for every interleaving of processes calling perform, no two trial records
\* that exist at the same time carry the same number.
C5_UniqueTrialNumbers ==
    \A e1, e2 \in DOMAIN trials : e1 # e2 => trials[e1].number # trials[e2].number

StrictPhaseStep(old, new) ==
    \/ new = old
    \/ old = "initializing" /\ new = "executing"
    \/ old = "executing" /\ new \in {"completed", "failed"}

LockedSection == {"locked", "numbered", "on_create", "unlock"}

\* The positions of perform after its with block, the raised and returned call included.
AfterLockedSection ==
    {"created", "try", "execute", "ran", "except_delete", "except", "else", "done", "raised"}

\* C11: on every exit path of perform's locked section (creation succeeds,
\* next_trial_number raises, create raises) the process no longer holds the project
\* lock, and a lock that is held is eventually free for another process.
C11_LockReleasedOnEveryExit ==
    /\ [](\A p \in Procs : pc[p] \in AfterLockedSection => lockHolder # p)
    /\ \A p \in Procs : (lockHolder = p /\ pc[p] \in LockedSection) ~> (lockHolder # p)

\* C11 witness: a call left the locked section by raising and the other process
\* has taken the lock since.
C11_Witness ==
    \E p, q \in Procs :
        /\ p # q
        /\ pc[p] = "raised"
        /\ loc[p].err \in {"number", "create", "on_create"}
        /\ lockHolder = q

\* The positions at which a process takes the project lock while it may hold it:
\* Trial.on_create evaluating Experiment.prefix inside perform's with block, and the
\* with block inside the lock-decorated configure.
NestedAcquire == {"on_create", "configure"}

C13_SelectHoldsLock ==
    \A p \in Procs : pc[p] = "select" => lockHolder = p

\* C14: whatever the operation (one, search, exists, update, unset, delete) and
\* whatever the form of its keys, the experiments a call of the
\* ExperimentController returns or modifies belong to the selected project.
C14_OnlySelectedProject ==
    lastCall.op \in ExprOps => lastCall.projects \subseteq {selected_project}

Named(name, proj) ==
    {e \in DOMAIN experiments :
        experiments[e].name = name /\ experiments[e].project = proj}

Members(proj) == \A model \in ModelKinds : proj \in models[model].projects

\* C16: creating an experiment whose Application has mpi=true and whose
\* Measurement has not fails with IncompatibleRecordError (unless the name is
\* taken, which is found first); with mpi=true on the Measurement too, and all
\* three members of the project, the create does not fail on compatibility.
C16_MpiApplicationNeedsMpiMeasurement ==
    lastCall.op = "create" =>
        /\ (models.application.mpi /\ ~models.measurement.mpi) =>
                /\ lastCall.err \in {"IncompatibleRecordError", "UniqueAttributeError"}
                /\ lastCall.err = "IncompatibleRecordError" =>
                        Named(lastCall.name, selected_project) = {}
        /\ (models.application.mpi /\ models.measurement.mpi /\ Members(selected_project)) =>
                /\ lastCall.err # "IncompatibleRecordError"
                /\ lastCall.err = None => Named(lastCall.name, selected_project) # {}

\* The create was refused on the mpi rule alone.
C16_Witness ==
    /\ lastCall.op = "create"
    /\ lastCall.err = "IncompatibleRecordError"
    /\ models.application.mpi /\ ~models.measurement.mpi
    /\ Members(selected_project)

\* C17: an experiment is created only if its Target, Application and
\* Measurement are members of the project and every ordered pair of them
\* passes check_compatibility; when verify fails, on_create raises before the
\* directory is made, and afterwards there is neither record nor directory.
C17_CreatedOnlyWhenVerified ==
    lastCall.op = "create" =>
        /\ lastCall.err = None =>
                /\ Members(selected_project)
                /\ \A lhs \in ModelKinds, rhs \in ModelKinds :
                        check_compatibility(models, lhs, rhs)
                /\ Cardinality(Named(lastCall.name, selected_project)) = 1
                /\ <<selected_project, lastCall.name>> \in dirs
        /\ lastCall.err = "IncompatibleRecordError" =>
                /\ ~verify(models, selected_project)
                /\ Named(lastCall.name, selected_project) = {}
                /\ <<selected_project, lastCall.name>> \notin dirs

\* A create refused because one of the three is no member of the project,
\* while the other project holds an experiment and its directory.
C17_Witness ==
    /\ lastCall.op = "create"
    /\ lastCall.err = "IncompatibleRecordError"
    /\ ~Members(selected_project)
    /\ dirs # {}

\* C18: updating the Application fails with ImmutableRecordError when an
\* experiment that uses it has at least one trial, and is not refused as
\* immutable when every experiment that uses it has no trials.
C18_ImmutableWhenExperimentHasTrials ==
    lastCall.op = "update_application" =>
        /\ (\E e \in DOMAIN experiments : trial_data[e] # <<>>) =>
                lastCall.err = "ImmutableRecordError"
        /\ (\A e \in DOMAIN experiments : trial_data[e] = <<>>) =>
                lastCall.err # "ImmutableRecordError"

\* C19: an update of the Application that would make an experiment using it
\* fail verify is blocked, so every experiment of the store passes verify
\* after every update; a blocked update names the experiment and leaves the
\* Application's stored values as they were.
C19_UpdateKeepsExperimentsValid ==
    lastCall.op = "update_application" =>
        /\ \A e \in DOMAIN experiments : verify(models, experiments[e].project)
        /\ lastCall.err = "ConfigurationError" =>
                /\ lastCall.named # {}
                /\ models.application.mpi # lastCall.mpi

C22_DeleteCompletesWhenRmtreeFails ==
    lastCall.op = "delete_entity" =>
        /\ lastCall.err = None
        /\ lastCall.eid \notin DOMAIN TableOf(lastCall.kind)
        /\ lastCall.logged <=> <<lastCall.kind, lastCall.eid>> \in dirs

\* A trial was deleted while rmtree failed: the record is gone, the directory stays.
C22_Witness ==
    /\ lastCall.op = "delete_entity"
    /\ lastCall.kind = "trial"
    /\ ~lastCall.rmtree_ok
    /\ lastCall.eid \notin DOMAIN trials
    /\ <<"trial", lastCall.eid>> \in dirs

\* C24: when the on_create hook of a Trial, an Experiment or a Project raises
\* because the directory cannot be made, the error reaches the caller with the
\* inserted record out of the store again and as many records of that type as
\* before the call.
C24_NoRecordWhenOnCreateRaises ==
    lastCall.op = "create_entity" /\ ~lastCall.mkdirp_ok =>
        /\ lastCall.err = "ConfigurationError"
        /\ lastCall.eid \notin DOMAIN TableOf(lastCall.kind)
        /\ Cardinality(DOMAIN TableOf(lastCall.kind)) = lastCall.before

\* The creation of a trial failed in on_create while another trial is stored.
C24_Witness ==
    /\ lastCall.op = "create_entity"
    /\ lastCall.kind = "trial"
    /\ lastCall.err = "ConfigurationError"
    /\ lastCall.before = 1
    /\ Cardinality(DOMAIN trials) = 1

\* C23: no reference dangles: each project's selected-experiment pointer is
\* unset or the id of an experiment in the table, and the trials on record
\* belong to experiments in the table.
C23_NoDanglingReference ==
    /\ \A q \in Projects : selected[q] = <<>> \/ selected[q][1] \in DOMAIN experiments
    /\ DOMAIN trial_data \subseteq DOMAIN experiments

\* C25 as stated: on a store whose file is read-only every reading call is
\* served and every writing call raises ConfigurationError, the file unchanged.
C25_EveryWriteRaisesConfigurationError ==
    readonly =>
        /\ lastOp.op \in ReadOps => lastOp.err # "ConfigurationError"
        /\ lastOp.op \in WriteOps =>
               lastOp.err = "ConfigurationError" /\ ~lastOp.wrote /\ ~lastOp.changed

\* C25: on a store whose file is read-only the reading calls never fail on the
\* file, no writing call writes or changes the file, insert and purge raise
\* ConfigurationError, and update, unset and remove raise ConfigurationError,
\* or KeyError where the table raises before the write, or return without
\* having tried to write when no keys were passed.
C25_NoWriteOnReadOnlyStore ==
    readonly =>
        /\ lastOp.op \in ReadOps => lastOp.err # "ConfigurationError" /\ ~lastOp.wrote
        /\ lastOp.op \in WriteOps => ~lastOp.wrote /\ ~lastOp.changed
        /\ lastOp.op \in {"insert", "purge"} => lastOp.err = "ConfigurationError"
        /\ lastOp.op \in {"update", "unset", "remove"} =>
               /\ lastOp.err \in {"ConfigurationError", "KeyError", None}
               /\ lastOp.err = None <=> ~lastOp.raised

\* A read-only store that holds a record refused an update with ConfigurationError.
C25_Witness ==
    /\ readonly
    /\ file # EmptyTable
    /\ lastOp.op = "update"
    /\ lastOp.err = "ConfigurationError"

\* The records the four forms of keys stand for: every record without keys, the
\* record with the id, the records with the ids, the records matching the mapping.
C26_Selected(table, keys) ==
    CASE keys.kind = "none" -> DOMAIN table
      [] keys.kind = "eid"  -> {keys.eid} \cap DOMAIN table
      [] keys.kind = "eids" -> keys.eids \cap DOMAIN table
      [] keys.kind = "dict" -> Query(table, keys)

\* What update, unset or remove leaves of the table when it acts on the records
\* in hit (arg: the fields to merge, the field to remove, nothing).
C26_Written(name, table, arg, hit) ==
    CASE name = "update" -> [e \in DOMAIN table |->
                                IF e \in hit THEN Merge(table[e], arg) ELSE table[e]]
      [] name = "unset"  -> [e \in DOMAIN table |->
                                IF e \in hit THEN Without(table[e], arg) ELSE table[e]]
      [] name = "remove" -> [e \in DOMAIN table \ hit |-> table[e]]

\* A step that is the writing call `name` with these keys, on a writable file,
\* and returned: the file is then what the call leaves when it acts on hit.
C26_ActsOn(name, keys, hit) ==
    /\ lastOp'.op = name
    /\ ~readonly
    /\ lastOp'.err = None
    /\ name = "update" =>
           \A fields \in Records \ {EmptyTable} :
               update(fields, keys) => file' = C26_Written(name, file, fields, hit)
    /\ name = "unset" =>
           \A field \in Fields :
               unset(field, keys) => file' = C26_Written(name, file, field, hit)
    /\ name = "remove" =>
           (remove(keys) => file' = C26_Written(name, file, <<>>, hit))

\* What a reading call found is what the keys stand for (get: one of them).
C26_Finds(op, found, meant) ==
    /\ found \subseteq meant
    /\ found = {} <=> meant = {}
    /\ op # "get" => found = meant

C26_Readable(op, table, keys) ==
    IF op = "get"
    THEN {e \in C26_Selected(table, keys) : table[e] # EmptyTable}
    ELSE C26_Selected(table, keys)

\* The forms of keys each call takes.
C26_Forms(name) ==
    CASE name = "get"    -> {"eid", "dict"}
      [] name = "search" -> {"none", "dict"}
      [] OTHER           -> {"eid", "eids", "dict"}

C27_EqualFields(fields, rec) ==
    {k \in DOMAIN fields : k \in DOMAIN rec /\ rec[k] = fields[k]}

\* C27: with a non-empty field mapping as keys a record matches, with
\* match_any true, exactly when at least one field of the mapping equals the
\* record's value for it and, with match_any false, exactly when all of them do.
C27_AnyIsOrAllIsAnd ==
    lastOp.op = "search" =>
        lastOp.found =
            {e \in DOMAIN file :
                LET equal == Cardinality(C27_EqualFields(lastOp.keys.fields, file[e]))
                IN  IF lastOp.keys.match_any
                    THEN equal >= 1
                    ELSE equal = Cardinality(DOMAIN lastOp.keys.fields)}

\* A mapping of two fields, joined by |, found a record that equals it in one
\* field only and left out a record that equals it in none.
C27_Witness ==
    /\ lastOp.op = "search"
    /\ lastOp.keys.match_any
    /\ DOMAIN lastOp.keys.fields = QueryFields
    /\ \E e \in lastOp.found :
           Cardinality(C27_EqualFields(lastOp.keys.fields, file[e])) = 1
    /\ \E e \in DOMAIN file : e \notin lastOp.found

\* C28: the creation of a Measurement fails with a model error exactly when its
\* name has a character that is no letter, digit, dot, dash or underscore.
C28_InvalidNameRefused ==
    lastCall.op = "create_measurement" =>
        (lastCall.err = "ModelError" <=>
            \E i \in 1..Len(lastCall.name) : lastCall.name[i] \notin _valid_name)

\* C29: Experiment.trials with a non-empty list of trial numbers returns one
\* trial per number asked for, in the order asked, and raises
\* ConfigurationError when one of the numbers has no trial in the experiment.
C29_OneTrialPerNumber ==
    result # <<>> =>
        IF \A i \in 1..Len(result[1].wanted) : result[1].wanted[i] \in Range(numbers)
        THEN result[1].err = None /\ result[1].returned = result[1].wanted
        ELSE result[1].err = "ConfigurationError"

\* C30: Experiment.select(name) makes the experiment with that name in the
\* selected project the project's selected experiment; with no such experiment
\* it raises ExperimentSelectionError, with more than one InternalError, and in
\* both cases the project's pointer keeps the value it had.
C30_SelectByNameOrRaise ==
    lastCall.op = "select" =>
        LET named == {e \in DOMAIN experiments :
                         /\ experiments[e].name = lastCall.name
                         /\ experiments[e].project = selected_project}
        IN  /\ Cardinality(named) = 1 =>
                   lastCall.err = None /\ selected[selected_project] \in {<<e>> : e \in named}
            /\ named = {} =>
                   /\ lastCall.err = "ExperimentSelectionError"
                   /\ selected[selected_project] = lastCall.before
            /\ Cardinality(named) > 1 =>
                   /\ lastCall.err = "InternalError"
                   /\ selected[selected_project] = lastCall.before

\* select moved the pointer of the selected project from one experiment to another.
C30_Witness ==
    /\ lastCall.op = "select"
    /\ lastCall.err = None
    /\ lastCall.before # <<>>
    /\ selected[selected_project] # lastCall.before
    /\ experiments[selected[selected_project][1]].name = lastCall.name

\* C31: Project.get_project returns the project exactly when the project
\* storage holds one project record; with no record and with more than one it
\* raises InternalError and returns nothing.
C31_ProjectIffExactlyOne ==
    lastCall.op = "get_project" =>
        /\ lastCall.err = None <=> Cardinality(DOMAIN selected) = 1
        /\ lastCall.err = None => lastCall.value \in {<<q>> : q \in DOMAIN selected}
        /\ lastCall.err # None => lastCall.err = "InternalError" /\ lastCall.value = <<>>

\* get_project raised on a storage that holds two projects.
C31_Witness ==
    /\ lastCall.op = "get_project"
    /\ Cardinality(DOMAIN selected) = 2
    /\ lastCall.err = "InternalError"

\* The three cases of get_selected on the `selected` field of project q.
C32_ThreeCases(q) ==
    /\ selected[q] = <<>> => lastCall.err = None /\ lastCall.value = <<>>
    /\ selected[q] # <<>> /\ selected[q][1] \in DOMAIN experiments =>
           lastCall.err = None /\ lastCall.value = selected[q]
    /\ selected[q] # <<>> /\ selected[q][1] \notin DOMAIN experiments =>
           lastCall.err = "InternalError" /\ lastCall.value = <<>>

C33_Steps == {"create_project", "select_project", "application", "target",
              "baseline", "sample", "profile", "trace", "select"}

\* C33: when `tau initialize` has ended because a step of creating or populating
\* the new project raised, the project storage is gone: no prefix, no record,
\* no selection; when a project was already selected, initialize has left the
\* storage as it was and returned EXIT_WARNING.
C33_InitializeAllOrNothing ==
    pc[InitProc] = "done" /\ lastCall.op = "initialize" =>
        /\ loc[InitProc].failed \in C33_Steps =>
               /\ lastCall.err # None
               /\ "storage" \notin dirs
               /\ models = EmptyStorage
               /\ selected_project = NoProject
               /\ experiments = EmptyTable
               /\ \A q \in Projects : selected[q] = <<>>
        /\ lastCall.before.selected_project # NoProject =>
               /\ Storage = lastCall.before
               /\ lastCall.err = None
               /\ lastCall.retval = "EXIT_WARNING"

\* The last step of populating the project raised after the project, the
\* application, the target and a measurement had been created.
C33_Witness ==
    /\ pc[InitProc] = "done"
    /\ lastCall.op = "initialize"
    /\ loc[InitProc].failed = "select"
    /\ "storage" \notin lastCall.before.dirs
    /\ "storage" \notin dirs

\* C34: Experiment.trials called without trial numbers returns exactly one
\* trial, one whose begin_time no trial of the experiment exceeds, and raises
\* ConfigurationError when the experiment has no trials.
C34_MostRecentTrial ==
    result # <<>> =>
        IF DOMAIN trials = {}
        THEN result[1].err = "ConfigurationError"
        ELSE /\ result[1].err = None
             /\ Len(result[1].returned) = 1
             /\ \E e \in DOMAIN trials : result[1].returned[1] = trials[e]
             /\ \A e \in DOMAIN trials :
                    HasBeginTime(trials[e]) =>
                        /\ HasBeginTime(result[1].returned[1])
                        /\ result[1].returned[1].begin_time >= trials[e].begin_time

\* The words of a list of commands, in order.
RECURSIVE C35_Flat(_)
C35_Flat(cmds) == IF cmds = <<>> THEN <<>> ELSE Head(cmds) \o C35_Flat(Tail(cmds))

\* The command line without its first '--'.
C35_WithoutSeparator(cmd) ==
    LET dashes == {i \in 1..Len(cmd) : cmd[i] = "--"}
    IN  IF dashes = {} THEN cmd
        ELSE SubSeq(cmd, 1, First(dashes) - 1) \o SubSeq(cmd, First(dashes) + 1, Len(cmd))

\* C35: for every non-empty command line in which the launcher is followed by
\* an application (no ConfigurationError), parse_launcher_cmd returns a launcher
\* command and application commands whose concatenation is the command line
\* without its first '--', and its assertion holds.
C35_ParseKeepsEveryWord ==
    lastCall.op = "parse_launcher_cmd" /\ lastCall.err # "ConfigurationError" =>
        /\ lastCall.err = None
        /\ lastCall.launcher_cmd \o C35_Flat(lastCall.application_cmds)
               = C35_WithoutSeparator(lastCall.cmd)

\* C36: whenever a perform call that created a trial record has returned or
\* raised, that trial is deleted or in a terminal phase ('completed' or
\* 'failed'), never 'initializing' or 'executing'.
C36_EndedTrialIsTerminal ==
    \A p \in Procs :
        (Ended(p) /\ loc[p].eid # 0) =>
            (~Exists(p) \/ Phase(p) \in {"completed", "failed"})

\* C37: every write perform makes to the project store (the insert, the phase
\* and field updates, the delete on failure) is made by a process that holds
\* the project's interprocess lock, and no write removes a record another
\* process inserted or brings back a record another process deleted.
C37_WritesUnderLock ==
    /\ [](\A p \in Procs : pc[p] \in WritePoints => lockHolder = p)
    /\ [][\A p \in Procs :
            (pc[p] \in WritePoints /\ pc'[p] = AfterWrite(p, pc[p])) =>
                /\ DOMAIN trials' \subseteq DOMAIN trials \cup {loc[p].eid}
                /\ DOMAIN trials \subseteq DOMAIN trials' \cup {loc[p].eid}]_vars

C40_InteractiveFields == {"end_time", "return_code", "data_size", "elapsed"}

C40_EndedTrialsHaveTheirFields ==
    \A e \in DOMAIN trials :
        /\ trials[e].phase \in {"completed", "failed"}
              => "environment" \in DOMAIN trials[e]
        /\ (trials[e].phase = "completed" /\ "begin_time" \in DOMAIN trials[e])
              => C40_InteractiveFields \subseteq DOMAIN trials[e]

====
